------------------------------ MODULE OpsGraph ------------------------------
(* agents/ioa_v3_agent.py: the workflow ioa_v3_langgraph_n8n.  A request is   *)
(* validated, planned (OpsPlanner), authorized workflow by workflow, executed *)
(* in one loop, and answered: from a fixed builder where the primary tool has *)
(* one, else by the language model.  run() lets LangGraph route between the   *)
(* nodes and lets exceptions out; run_stream() calls the nodes in a loop of   *)
(* its own and turns exceptions into a final event.                           *)
EXTENDS OpsPlanner, StreamEvents

CONSTANTS Callers,    \* the requests being served
          Streams,    \* those served by run_stream
          Requests,   \* what may be asked, of which source (see Request)
          Worlds      \* what the model proposes and what fails (see World)

VARIABLES request,    \* request[c]: what c asked, of which data source
          graph,      \* graph[c]: IOAV3State and the node that is next
          outbox,     \* outbox[c]: events yielded and not yet taken
          world       \* what the planner, the tools and the model do

graphVars == <<request, graph, outbox, world>>

Request == [size : {"blank", "fits", "long"}, words : SUBSET Phrases,
            selected : {"simulator", "company"},
            active : {"simulator", "company_mongodb", "simulator_fallback"}]

(* planner is "fails" when the model raises or answers no JSON; proposal is    *)
(* what it proposes otherwise.  company is "fails" when the company database   *)
(* cannot be read, and "lost" when the simulator's telemetry cannot either;    *)
(* n8n is "text" when a workflow of the gateway answers no object.             *)
World(w) == /\ {"planner", "proposal", "company", "n8n", "mcp", "model"} \subseteq DOMAIN w
            /\ w.planner \in {"proposes", "fails", "disabled"}
            /\ w.proposal \in Seq({w.proposal[i] : i \in DOMAIN w.proposal})
            /\ w.company \in {"answers", "fails", "lost"}
            /\ w.n8n \in {"answers", "text", "raises"}
            /\ {w.mcp, w.model} \subseteq {"answers", "raises"}

(* The Grafana tools that are queried through the MCP server, the others go    *)
(* to the n8n gateway, and the primary tools whose answer needs no model.      *)
MCP_PROMETHEUS_TOOLS ==
  DOMAIN GRAFANA_TOOLS \ {"grafana_logs", "grafana_platform_service_health",
                          "grafana_java_errors", "grafana_trace_metrics"}

DETERMINISTIC_BUILDER_REGISTRY ==
  {"grafana_logs", "grafana_platform_service_health"} \cup Onem2mTools

-----------------------------------------------------------------------------
initial_state ==
  [at |-> "off", allowed |-> TRUE, reason |-> "", plan |-> <<>>, outputs |-> <<>>,
   reads |-> {}, calls |-> 0, executions |-> 0, prompts |-> 0, steps |-> <<>>,
   answer |-> "none"]

max_tool_executions == MAX_WORKFLOW_EXECUTIONS

(* The edges of the graph, and the nodes after which LangGraph routes by       *)
(* policy_allowed; run_stream's loop tests it after every node.                *)
Conditional == {"validate_request", "authorize_workflow"}

After(node) ==
  CASE node = "validate_request" -> "select_workflow"
    [] node = "select_workflow" -> "authorize_workflow"
    [] node = "authorize_workflow" -> "call_n8n_workflow"
    [] node = "call_n8n_workflow" -> "apply_kpi_rules"
    [] node = "apply_kpi_rules" -> "generate_answer"

Route(c, node, allowed) ==
  IF ~allowed /\ (c \in Streams \/ node \in Conditional)
  THEN "deny_request" ELSE After(node)

Enters(c, node) == graph[c].at = node /\ outbox[c] = <<>>

Yields(c, events) == outbox' = [outbox EXCEPT ![c] = IF c \in Streams THEN events ELSE <<>>]

Leaves(c, node, result) ==
  /\ graph' = [graph EXCEPT ![c] = [result EXCEPT !.steps = Append(@, node),
                                                  !.at = Route(c, node, result.allowed)]]
  /\ Yields(c, StepEvents(node))
  /\ UNCHANGED <<request, world>>

(* A node raises: run lets the exception out, run_stream appends and yields a  *)
(* runtime_error step and gives an apology as its answer.                      *)
Raises(c, g) ==
  /\ graph' = [graph EXCEPT ![c] =
                 IF c \in Streams
                 THEN [g EXCEPT !.at = "failed", !.answer = "apology",
                                !.steps = Append(@, "runtime_error")]
                 ELSE [g EXCEPT !.at = "raised"]]
  /\ Yields(c, StepEvents("runtime_error") \o <<Final("apology")>>)
  /\ UNCHANGED <<request, world>>

-----------------------------------------------------------------------------
Start(c, r) == /\ graph[c].at = "off"
               /\ request' = [request EXCEPT ![c] = r]
               /\ graph' = [graph EXCEPT ![c].at = "validate_request"]
               /\ UNCHANGED <<outbox, world>>

ValidateRequest(c) ==
  /\ Enters(c, "validate_request")
  /\ LET fits == request[c].size = "fits"
     IN Leaves(c, "validate_request",
          [graph[c] EXCEPT !.allowed = fits,
                           !.reason = IF fits THEN "request_validated" ELSE "invalid_request"])

(* select_workflow_node prompts the planner; any exception of it is caught.    *)
SelectWorkflow(c) ==
  /\ Enters(c, "select_workflow")
  /\ LET p == request[c].words
     IN Leaves(c, "select_workflow",
          [graph[c] EXCEPT !.plan = IF world.planner = "proposes"
                                    THEN plan_workflows(world.proposal, p)
                                    ELSE plan_deterministically(p)])

authorized_workflows(plan, r) ==
  Kept(plan, {i \in DOMAIN plan :
                authorize_single_workflow(plan[i], r.selected, r.active) = "workflow_authorized"})

AuthorizeWorkflow(c) ==
  /\ Enters(c, "authorize_workflow")
  /\ LET g == graph[c]
         r == request[c]
         authorized == authorized_workflows(Bounded(g.plan), r)
         in_budget == g.plan # <<>> /\ g.executions < max_tool_executions
     IN Leaves(c, "authorize_workflow",
          [g EXCEPT !.plan = authorized,
                    !.allowed = in_budget /\ authorized # <<>>,
                    !.reason = IF authorized = <<>> THEN "no_authorized_workflows"
                               ELSE IF Len(g.plan) > max_tool_executions
                               THEN "workflow_authorized_with_budget_truncation"
                               ELSE IF in_budget THEN "workflow_authorized" ELSE "workflow_denied"])

(* execute_workflow: what a workflow reads, if it queries anything at all.  A  *)
(* company tool other than the threshold scan catches a failed read and        *)
(* returns simulator_fallback_snapshot, from the simulator's telemetry; a      *)
(* failure of the MCP server is evidence too.  Any other failure leaves the    *)
(* node.                                                                       *)
Source(tool) == IF tool \in CompanyTools THEN "company" ELSE "grafana"

Service(tool) ==
  CASE tool \in CompanyTools -> "company"
    [] tool \in MCP_PROMETHEUS_TOOLS \cup {"grafana_logs"} -> "mcp"
    [] OTHER -> "n8n"

Queries(flow) ==
  CASE flow.tool = "grafana_logs" -> Has(flow.params, {"service", "contains"})
    [] flow.tool = "scan_company_threshold" -> "threshold" \in flow.params
    [] OTHER -> TRUE

FallsBack(tool) == tool \in CompanyTools \ {"scan_company_threshold"}

Snapshot(flow) == FallsBack(flow.tool) /\ world.company # "answers"

ReadBy(flow) == IF ~Queries(flow) THEN {}
                ELSE {Source(flow.tool)} \cup If(Snapshot(flow), {"simulator"})

Escapes(flow) ==
  /\ Queries(flow)
  /\ \/ Service(flow.tool) = "n8n" /\ world.n8n = "raises"
     \/ /\ Service(flow.tool) = "company" /\ world.company # "answers"
        /\ FallsBack(flow.tool) => world.company = "lost"

Evidence(flow) ==
  IF ~Queries(flow) THEN "needs_target"
  ELSE IF Snapshot(flow) THEN "snapshot"
  ELSE IF Service(flow.tool) = "mcp" /\ world.mcp = "raises" THEN "unavailable"
  ELSE IF Service(flow.tool) = "n8n" /\ world.n8n = "text" THEN "text"
  ELSE "evidence"

(* One turn of the loop of call_n8n_workflow_node.  What was executed is only  *)
(* counted when the loop is over, so a workflow that raises loses the others.  *)
ExecuteWorkflow(c) ==
  /\ Enters(c, "call_n8n_workflow")
  /\ Len(graph[c].outputs) < Len(graph[c].plan)
  /\ LET flow == graph[c].plan[Len(graph[c].outputs) + 1]
         g == [graph[c] EXCEPT
                 !.calls = @ + 1,
                 !.reads = @ \cup ReadBy(flow)]
     IN IF Escapes(flow)
        THEN Raises(c, [g EXCEPT !.outputs = <<>>])
        ELSE /\ graph' = [graph EXCEPT ![c] =
                   [g EXCEPT !.outputs = Append(@, <<flow.tool, Evidence(flow)>>)]]
             /\ UNCHANGED <<request, outbox, world>>

FinishWorkflows(c) ==
  /\ Enters(c, "call_n8n_workflow")
  /\ Len(graph[c].outputs) = Len(graph[c].plan)
  /\ Leaves(c, "call_n8n_workflow", [graph[c] EXCEPT !.executions = @ + Len(graph[c].outputs)])

(* The KPI rules are attached to the outputs; none is dropped or added.        *)
ApplyKpiRules(c) == /\ Enters(c, "apply_kpi_rules")
                    /\ Leaves(c, "apply_kpi_rules", graph[c])

(* build_deterministic_answer, else the model.  A builder gives no answer to   *)
(* an output that lacks what it shows: a snapshot has no resources of oneM2M,  *)
(* and a text no verdict.  The follow-up planner that comes after either       *)
(* swallows its own failures.                                                  *)
HasBuilder(g) ==
  /\ g.plan[1].tool \in MCP_PROMETHEUS_TOOLS \cup DETERMINISTIC_BUILDER_REGISTRY
  /\ g.outputs[1][2] \notin {"snapshot", "text"}

GenerateAnswer(c) ==
  /\ Enters(c, "generate_answer")
  /\ LET g == graph[c]
         asked == [g EXCEPT !.prompts = @ + 1]
     IN IF HasBuilder(g)
        THEN /\ graph' = [graph EXCEPT ![c] =
                   [g EXCEPT !.at = "answered", !.answer = "deterministic",
                             !.steps = Append(@, "generate_answer")]]
             /\ Yields(c, StepEvents("generate_answer") \o <<Final("deterministic")>>)
             /\ UNCHANGED <<request, world>>
        ELSE IF world.model = "raises"
        THEN Raises(c, asked)
        ELSE /\ graph' = [graph EXCEPT ![c] =
                   [asked EXCEPT !.at = "answered", !.answer = "model",
                                 !.steps = Append(@, "generate_answer")]]
             /\ Yields(c, StepEvents("generate_answer") \o <<Final("model")>>)
             /\ UNCHANGED <<request, world>>

DenyRequest(c) ==
  /\ Enters(c, "deny_request")
  /\ graph' = [graph EXCEPT ![c].at = "denied", ![c].answer = graph[c].reason,
                            ![c].steps = Append(@, "deny_request")]
  /\ Yields(c, <<Final(graph[c].reason)>>)
  /\ UNCHANGED <<request, world>>

Pull(c) == /\ outbox[c] # <<>>
           /\ outbox' = [outbox EXCEPT ![c] = Tail(@)]
           /\ UNCHANGED <<request, graph, world>>

Abandon(c) == /\ c \in Streams
              /\ outbox[c] # <<>>
              /\ graph' = [graph EXCEPT ![c].at =
                             IF @ \in {"answered", "denied", "failed"} THEN @ ELSE "closed"]
              /\ outbox' = [outbox EXCEPT ![c] = <<>>]
              /\ UNCHANGED <<request, world>>

Step(c) == \/ ValidateRequest(c) \/ SelectWorkflow(c) \/ AuthorizeWorkflow(c)
           \/ ExecuteWorkflow(c) \/ FinishWorkflows(c) \/ ApplyKpiRules(c)
           \/ GenerateAnswer(c) \/ DenyRequest(c)

Init == /\ request = [c \in Callers |-> CHOOSE r \in Requests : TRUE]
        /\ graph = [c \in Callers |-> initial_state]
        /\ outbox = [c \in Callers |-> <<>>]
        /\ world \in Worlds

Next == \E c \in Callers : (\E r \in Requests : Start(c, r)) \/ Step(c) \/ Pull(c) \/ Abandon(c)

Spec == Init /\ [][Next]_graphVars
-----------------------------------------------------------------------------
(* The workflow is governed, with a budget of five executions; a request may   *)
(* read Grafana, and the company database only where the company source is     *)
(* selected and active.  The simulator stands in for the company database when *)
(* that cannot be read.                                                        *)
Phase(g) ==
  CASE g.at = "off" -> "idle"
    [] g.at \in {"validate_request", "select_workflow", "authorize_workflow"} -> "asked"
    [] g.at = "deny_request" -> "asked"
    [] g.at \in {"call_n8n_workflow", "apply_kpi_rules"} -> "approved"
    [] g.at = "generate_answer" -> "collected"
    [] g.at = "answered" -> "answered"
    [] g.at = "denied" -> "refused"
    [] g.at \in {"raised", "failed", "closed"} -> "failed"

Granted(r) == {"grafana"} \cup If(r.selected = "company" /\ r.active = "company_mongodb", {"company"})

Governed == INSTANCE GovernedWorkflow WITH
              Runs <- Callers,
              Sources <- {"grafana", "company", "simulator"},
              Fallback <- [grafana |-> {}, company |-> {"simulator"}, simulator |-> {}],
              Budget <- max_tool_executions,
              phase <- [c \in Callers |-> Phase(graph[c])],
              granted <- [c \in Callers |->
                            IF graph[c].at = "off" THEN {} ELSE Granted(request[c])],
              touched <- [c \in Callers |-> graph[c].reads],
              count <- [c \in Callers |-> graph[c].calls],
              down <- IF world.company # "answers" THEN {"company"} ELSE {}

(* Whatever the model proposes and whatever fails, both ways of driving the    *)
(* nodes implement the governed workflow.                                      *)
ImplementsGoverned == Governed!Spec

Planned(g) == "select_workflow" \in {g.steps[i] : i \in DOMAIN g.steps}

(* No plan, whatever the model proposed, holds a workflow with a parameter its *)
(* tool does not allow, and none is longer than the budget: with the company   *)
(* source active the authorization never drops anything from a plan.           *)
PlansAreAuthorizable ==
  \A c \in Callers :
    LET g == graph[c]
    IN Planned(g) => /\ g.plan # <<>> \/ g.reason = "no_authorized_workflows"
                     /\ Len(g.plan) <= max_tool_executions
                     /\ \A i \in DOMAIN g.plan : g.plan[i].params \subseteq allowed_params(g.plan[i].tool)
                     /\ g.reason # "workflow_authorized_with_budget_truncation"

(* A prompt that calls for a runbook is answered by that runbook's tool, also  *)
(* when the model proposed something else: it is the primary workflow of the   *)
(* plan, unless all of the infrastructure was asked for.                       *)
Runbooks == MetricRunbookTools \cup Onem2mTools \cup {"get_company_device_drilldown"}

RunbookComesFirst ==
  \A c \in Callers :
    LET g == graph[c]
        runbook == classify_tool(request[c].words).tool
    IN (g.at = "authorize_workflow" /\ runbook \in Runbooks)
       => \/ g.plan[1].tool = runbook
          \/ Overview(request[c].words) /\ g.plan[1].tool = "grafana_k8s_health"

(* run and run_stream come to the same end: the same plan, the same evidence   *)
(* in the same order and the same kind of answer, or both fail.                *)
Ended(g) == g.at \in {"answered", "denied", "raised", "failed"}

RunAndStreamAgree ==
  \A c, d \in Callers :
    (request[c] = request[d] /\ Ended(graph[c]) /\ Ended(graph[d]))
    => /\ graph[c].plan = graph[d].plan
       /\ graph[c].outputs = graph[d].outputs
       /\ graph[c].reads = graph[d].reads
       /\ (graph[c].at \in {"raised", "failed"}) = (graph[d].at \in {"raised", "failed"})
       /\ graph[c].at \notin {"raised", "failed"} => graph[c].answer = graph[d].answer
=============================================================================
