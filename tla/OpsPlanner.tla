----------------------------- MODULE OpsPlanner -----------------------------
(* agents/ioa_v3_agent.py: from a prompt to the list of workflows to run.     *)
(* A language model proposes workflows; the proposal is filtered and then     *)
(* corrected by runbooks the keywords of the prompt call for.  Without a       *)
(* usable proposal the taxonomy of OpsClassifier plans alone.                  *)
EXTENDS OpsClassifier

MAX_WORKFLOW_EXECUTIONS == 5

-----------------------------------------------------------------------------
(* The catalogues: COMPANY_DB_TOOLS and config/grafana_tools.json, each tool   *)
(* with the parameters it allows.                                              *)
Onem2mParams == {"device_id", "ae_id", "request_id", "payload_hint", "time_range",
                 "application_domain"}

COMPANY_DB_TOOLS ==
  [get_company_disconnected_devices |-> {}, get_company_provisional_alerts |-> {},
   get_company_fleet_summary |-> {}, get_company_inventory |-> {},
   get_company_telemetry_coverage |-> {}, get_company_rule_readiness |-> {},
   get_company_device_drilldown |-> {"device_id"},
   get_company_onem2m_device_resources |-> Onem2mParams,
   query_company_onem2m_collection |-> Onem2mParams \cup {"collection"},
   query_device_online_status |-> Onem2mParams,
   query_onem2m_cin_records |-> Onem2mParams \cup {"cin_type"},
   get_company_onem2m_command_flow |-> Onem2mParams,
   get_company_onem2m_telemetry_flow |-> Onem2mParams,
   scan_company_threshold |-> {"threshold"}]

Window == {"start", "end", "step"}

GRAFANA_TOOLS ==
  [grafana_platform_service_health |-> {},
   grafana_queue_backlog |-> {"namespace", "topk", "threshold"},
   grafana_queue_trend |-> {"namespace", "queue"} \cup Window,
   query_rabbitmq_queue_detail |-> {"namespace", "queue_name"},
   grafana_throughput |-> {"queue"}, grafana_http_health |-> {"project", "window"},
   grafana_java_errors |-> {"window"}, grafana_trace_metrics |-> {"window"},
   grafana_logs |-> {"service", "level", "hours_back", "limit", "contains"},
   grafana_emqx_health |-> {}, grafana_emqx_dropped_trend |-> Window,
   grafana_emqx_connection_trend |-> Window, query_emqx_connection_count |-> {},
   grafana_k8s_health |-> {}, grafana_k8s_resources |-> {"namespace", "service", "pod"},
   grafana_redis_health |-> {}, grafana_mongodb_health |-> {}, grafana_mysql_health |-> {},
   grafana_linux_health |-> {}]

CompanyTools == DOMAIN COMPANY_DB_TOOLS
Tools == CompanyTools \cup DOMAIN GRAFANA_TOOLS

allowed_params(tool) ==
  IF tool \in CompanyTools THEN COMPANY_DB_TOOLS[tool] ELSE GRAFANA_TOOLS[tool]

Onem2mTools == {t \in CompanyTools : Onem2mParams \subseteq COMPANY_DB_TOOLS[t]}

Flow(tool, params) == [tool |-> tool, params |-> params]
ToolsOf(plan) == {plan[i].tool : i \in DOMAIN plan}

\* The items of s at the positions I, in their order.
Rank(I, i) == Cardinality({j \in I : j <= i})
Kept(s, I) == [k \in 1 .. Cardinality(I) |-> s[CHOOSE i \in I : Rank(I, i) = k]]

Without(plan, tools) == Kept(plan, {i \in DOMAIN plan : plan[i].tool \notin tools})
Only(plan, tools) == Kept(plan, {i \in DOMAIN plan : plan[i].tool \in tools})
Bounded(plan) ==
  SubSeq(plan, 1, IF Len(plan) < MAX_WORKFLOW_EXECUTIONS THEN Len(plan)
                  ELSE MAX_WORKFLOW_EXECUTIONS)

-----------------------------------------------------------------------------
(* enrich_workflow_params: what the text names is filled in.                   *)
enrich_workflow_params(tool, params, p) ==
  params
    \cup If(tool \in Onem2mTools, with_onem2m_identifiers(p))
    \cup If(tool = "query_company_onem2m_collection" /\ collection(p), {"collection"})
    \cup If(tool = "query_onem2m_cin_records" /\ cin_type(p), {"cin_type"})
    \cup If(tool = "get_company_device_drilldown" /\ device_id(p), {"device_id"})

(* prompt_domain and is_workflow_compatible_with_prompt: the model may not     *)
(* answer a question about one domain with tools of another.                   *)
prompt_domain(p) ==
  CASE Has(p, {"named_queue", "consumer", "backlog", "throughput"}) -> "rabbitmq"
    [] ~Has(p, {"named_queue", "consumer", "backlog", "throughput"})
         /\ ("onem2m" \in p \/ device_id(p)) -> "onem2m"
    [] OTHER -> IF "k8s" \in p THEN "kubernetes" ELSE IF Broker(p) THEN "emqx" ELSE "general"

RabbitTools == {"grafana_queue_backlog", "query_rabbitmq_queue_detail", "grafana_queue_trend",
                "grafana_throughput", "grafana_k8s_resources", "grafana_logs"}

is_compatible(tool, p) ==
  IF prompt_domain(p) = "rabbitmq" THEN tool \in RabbitTools
  ELSE tool \in Onem2mTools => prompt_domain(p) \in {"onem2m", "general"}

-----------------------------------------------------------------------------
(* ensure_runbook_required_workflows.                                          *)
MetricRunbookTools == {"grafana_queue_backlog", "grafana_queue_trend",
                       "grafana_emqx_dropped_trend", "grafana_emqx_connection_trend",
                       "grafana_k8s_resources"}

FlowTools == {"get_company_onem2m_command_flow", "get_company_onem2m_telemetry_flow"}

Primary(p) == LET rule == classify_tool(p)
              IN Flow(rule.tool, enrich_workflow_params(rule.tool, rule.params, p))

(* A flow that is debugged with its logs reads those of each adapter named.    *)
AdapterLogs(p) ==
  LET named == (IF "mqtt" \in p THEN <<"iot-mqtt-client-adapter">> ELSE <<>>)
                 \o (IF "notify" \in p THEN <<"notify">> ELSE <<>>)
      services == IF named = <<>> THEN <<"iot-http-api">> ELSE named
  IN [i \in DOMAIN services |->
        Flow("grafana_logs", {"level", "hours_back", "limit", "service"}
                               \cup If(device_id(p), {"contains"}))]

with_adapter_logs(plan, p) ==
  LET kept == Only(plan, Onem2mTools \cup {"grafana_logs"})
  IN IF ToolsOf(plan) \cap Onem2mTools = {} THEN plan
     ELSE IF ToolsOf(plan) \cap FlowTools = {} \/ ~Has(p, {"logs", "backlog", "notify"})
     THEN kept
     ELSE Bounded(Without(kept, {"grafana_logs"}) \o AdapterLogs(p))

\* Faulty variant: a usable proposal is not corrected by runbooks.
keep_proposal(plan, p) == with_adapter_logs(plan, p)

ensure_runbook_required(plan, p) ==
  LET runbook == Primary(p)
  IN IF runbook.tool \in MetricRunbookTools
     THEN Bounded(<<runbook>> \o Without(plan, Onem2mTools \cup {runbook.tool}))
     ELSE IF runbook.tool \in Onem2mTools
     THEN with_adapter_logs(Bounded(<<runbook>> \o Without(plan, Onem2mTools)), p)
     ELSE with_adapter_logs(plan, p)

ensure_device_drilldown(plan, p) ==
  IF Primary(p).tool # "get_company_device_drilldown" THEN plan
  ELSE Bounded(<<Primary(p)>> \o Without(plan, {Primary(p).tool}))

OverviewTools == <<"grafana_k8s_health", "grafana_linux_health", "grafana_redis_health",
                   "grafana_mongodb_health", "grafana_mysql_health">>

Overview(p) == {"k8s", "linux", "redis", "mongo", "mysql"} \subseteq p

ensure_infrastructure_overview(plan, p) ==
  IF ~Overview(p) THEN plan
  ELSE [i \in DOMAIN OverviewTools |->
          IF OverviewTools[i] \in ToolsOf(plan) THEN Only(plan, {OverviewTools[i]})[1]
          ELSE Flow(OverviewTools[i], {})]

ensure_k8s_resource_logs(plan) ==
  IF "grafana_k8s_resources" \notin ToolsOf(plan) THEN plan
  ELSE Bounded(Without(plan, {"grafana_logs"})
                 \o <<Flow("grafana_logs", {"level", "hours_back", "limit"})>>)

Corrected(plan, p) ==
  ensure_k8s_resource_logs(
    ensure_infrastructure_overview(
      ensure_device_drilldown(ensure_runbook_required(plan, p), p), p))

-----------------------------------------------------------------------------
(* plan_workflows_deterministically, with the further Grafana tools the text   *)
(* hints at (detect_additional_grafana_tools).                                 *)
Signals ==
  <<<<{"redis"}, "grafana_redis_health">>,
    <<{"named_queue", "queue"}, "grafana_queue_backlog">>,
    <<{"k8s"}, "grafana_k8s_health">>,
    <<{"http"}, "grafana_http_health">>,
    <<{"dropped"}, "grafana_emqx_dropped_trend">>,
    <<{"emqx", "mqtt"}, "grafana_emqx_health">>,
    <<{"logs"}, "grafana_logs">>,
    <<{"trace"}, "grafana_trace_metrics">>,
    <<{"service_health"}, "grafana_platform_service_health">>>>

detect_additional_grafana_tools(p, primary) ==
  LET signals == IF Overview(p)
                 THEN [i \in 1 .. 4 |-> <<p, OverviewTools[i + 1]>>]
                 ELSE Signals
      extra == Kept(signals, {i \in DOMAIN signals : Has(p, signals[i][1]) /\ signals[i][2] # primary})
  IN [i \in DOMAIN extra |-> Flow(extra[i][2], {})]

plan_deterministically(p) ==
  LET rule == classify_tool(p)
  IN Corrected(Bounded(<<Flow(rule.tool, rule.params)>>
                         \o detect_additional_grafana_tools(p, rule.tool)), p)

-----------------------------------------------------------------------------
(* normalize_planner_workflows: of the first five items of the proposal those  *)
(* that name an approved tool for the first time, fit the domain of the prompt *)
(* and are confident enough, with the parameters their tool allows.            *)
Usable(proposal, p, i) ==
  LET item == proposal[i]
  IN /\ item.tool \in Tools
     /\ is_compatible(item.tool, p)
     /\ item.confident

(* filter_tool_params keeps allowed parameters only, and a window, a queue or  *)
(* a search text only when the user wrote it, which an invented one is not.    *)
\* Faulty variant: proposed parameters are not filtered.
all_tool_params(item) == item.params

filter_tool_params(item) ==
  (item.params \cap allowed_params(item.tool)) \ (Window \cup {"queue", "contains"})

normalize_planner_workflows(proposal, p) ==
  LET considered == Bounded(proposal)
      new(i) == \A j \in 1 .. i - 1 : Usable(considered, p, j) => considered[j].tool # considered[i].tool
      kept == Kept(considered, {i \in DOMAIN considered : Usable(considered, p, i) /\ new(i)})
      flow(item) == Flow(item.tool, enrich_workflow_params(item.tool, filter_tool_params(item), p))
  IN Corrected([k \in DOMAIN kept |-> flow(kept[k])], p)

(* plan_workflows: a proposal that cannot be had, read or used leaves the plan *)
(* to the taxonomy.                                                            *)
plan_workflows(proposal, p) ==
  LET semantic == normalize_planner_workflows(proposal, p)
  IN IF semantic = <<>> THEN plan_deterministically(p) ELSE semantic

-----------------------------------------------------------------------------
\* Faulty variant: company tools are authorized for every source.
authorize_any_source(flow, selected, active) ==
  IF flow.params \subseteq allowed_params(flow.tool) THEN "workflow_authorized"
  ELSE "unsupported_workflow_params"

(* authorize_single_workflow.                                                  *)
authorize_single_workflow(flow, selected, active) ==
  CASE flow.tool \in CompanyTools /\ ~(selected = "company" /\ active = "company_mongodb") ->
         "company_db_source_required"
    [] ~(flow.tool \in CompanyTools /\ ~(selected = "company" /\ active = "company_mongodb"))
         /\ ~(flow.params \subseteq allowed_params(flow.tool)) -> "unsupported_workflow_params"
    [] OTHER -> "workflow_authorized"
=============================================================================
