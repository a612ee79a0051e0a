---------------------------- MODULE OpsClassifier ----------------------------
(* agents/ioa_v3_agent.py, classify_tool: the keyword taxonomy that names the *)
(* one tool a request is about, with the names of the parameters it reads off *)
(* the text.  A prompt is the set of phrases it holds; each family below lists *)
(* the phrases that hold one of the code's keywords as a substring, which is   *)
(* how the code looks for them.  "named_queue" and "named_device" are phrases  *)
(* that name a queue or a device, "bare_device" a prompt that is nothing but   *)
(* a device identifier.                                                        *)
EXTENDS Naturals, Sequences, FiniteSets

Phrases ==
  {"named_queue", "queue", "error", "exception", "warning", "consumer", "detail", "trend",
   "backlog", "throughput", "company", "device", "named_device", "bare_device", "status",
   "connected", "disconnect", "reconnect", "point_of_access", "alert", "threshold", "above",
   "number", "why", "redis", "k8s", "linux", "mongo", "mysql", "http", "emqx", "mqtt", "java",
   "trace", "grafana", "resource", "dropped", "connection_count", "logs", "inventory", "fleet",
   "coverage", "rule_readiness", "onem2m", "ae_candidates", "cnt", "cin", "cin_timestamp",
   "show", "command", "debug", "command_flow", "telemetry", "telemetry_flow",
   "resource_check", "registration", "configuration", "notify", "promql", "scrape_target",
   "correlate", "last_hours", "service_health", "node", "again"}

Has(p, family) == p \cap family # {}

-----------------------------------------------------------------------------
(* What the text names.                                                       *)
queue_name(p) == "named_queue" \in p
device_id(p) == Has(p, {"named_device", "bare_device"})
log_service(p) == Has(p, {"emqx", "notify"})
threshold(p) == Has(p, {"number", "named_device", "bare_device", "last_hours", "k8s", "onem2m"})
hours_back(p) == "last_hours" \in p
collection(p) == Has(p, {"ae_candidates", "cnt", "cin", "cin_timestamp"})
cin_type(p) == Has(p, {"command", "command_flow", "telemetry", "telemetry_flow"})

If(condition, names) == IF condition THEN names ELSE {}

with_onem2m_identifiers(p) == If(device_id(p), {"device_id"})

-----------------------------------------------------------------------------
(* A rule is a condition on the prompt, a tool and its parameters.            *)
Rule(when, tool, params) == [when |-> when, tool |-> tool, params |-> params]

QueueRules(p) ==
  <<Rule(queue_name(p) /\ Has(p, {"error", "exception"}),
         "grafana_logs", {"contains"} \cup If("warning" \in p, {"level"})),
    Rule(queue_name(p) /\ Has(p, {"consumer", "detail"}),
         "query_rabbitmq_queue_detail", {"queue_name"}),
    Rule(queue_name(p) /\ "trend" \in p, "grafana_queue_trend", {"queue"})>>

explicit_logs(p) == "logs" \in p

DeviceTerms == {"device", "named_device", "status", "inventory", "fleet", "telemetry",
                "telemetry_flow", "node"}
AlertTerms == {"warning", "alert", "threshold"}
MetaTerms == {"inventory", "fleet", "coverage", "rule_readiness"}
InfraTerms == {"named_queue", "queue", "exception", "backlog", "throughput", "redis", "k8s",
               "mysql", "http", "emqx", "mqtt", "java", "trace", "grafana", "logs",
               "service_health"}

(* Company data is preferred for a request about devices that names no        *)
(* infrastructure, and for one that names the company or an alert besides.    *)
should_prefer_company_db(p) ==
  \/ "company" \in p /\ Has(p, DeviceTerms \cup AlertTerms \cup MetaTerms)
  \/ Has(p, DeviceTerms) /\ ~Has(p, InfraTerms)
  \/ Has(p, DeviceTerms) /\ Has(p, AlertTerms)

AeCandidateRule(p) ==
  Rule(explicit_logs(p) /\ "ae_candidates" \in p, "grafana_logs",
       If(log_service(p), {"service"}) \cup If(device_id(p), {"contains"})
         \cup If(hours_back(p), {"hours_back"})
         \cup If(Has(p, {"warning", "error", "exception"}), {"level"}))

-----------------------------------------------------------------------------
(* OneM2M resources, flows and records of a device.                           *)
ResourceTerms == {"onem2m", "ae_candidates", "cnt", "cin", "cin_timestamp"}
RawTerms == {"cin_timestamp", "show"}
OnlineTerms == {"status", "connected", "point_of_access"}

command_flow(p) == "command_flow" \in p \/ ("command" \in p /\ "debug" \in p)
telemetry_flow(p) == "telemetry_flow" \in p \/ ("telemetry" \in p /\ "debug" \in p)
resource_check(p) == Has(p, {"resource_check", "registration"})

CinLogRule(p) ==
  Rule(/\ device_id(p) /\ explicit_logs(p)
       /\ \/ "correlate" \in p /\ log_service(p) /\ "cin_timestamp" \in p
          \/ Has(p, {"point_of_access", "cin_timestamp"}),
       "grafana_logs",
       {"contains"} \cup If(log_service(p), {"service"}) \cup If(hours_back(p), {"hours_back"}))

FlowRules(p) ==
  <<Rule(command_flow(p), "get_company_onem2m_command_flow", with_onem2m_identifiers(p)),
    Rule(telemetry_flow(p), "get_company_onem2m_telemetry_flow", with_onem2m_identifiers(p)),
    Rule("bare_device" \in p, "get_company_onem2m_device_resources", with_onem2m_identifiers(p)),
    Rule(device_id(p) /\ Has(p, OnlineTerms)
           /\ (~Has(p, ResourceTerms) \/ "point_of_access" \in p),
         "query_device_online_status", with_onem2m_identifiers(p)),
    Rule(resource_check(p), "get_company_onem2m_device_resources", with_onem2m_identifiers(p))>>

Onem2mRules(p) ==
  <<Rule(device_id(p) /\ "configuration" \in p,
         "query_company_onem2m_collection", {"device_id", "collection"}),
    Rule(device_id(p) /\ collection(p) /\ Has(p, RawTerms),
         "query_company_onem2m_collection", {"device_id", "collection"}),
    Rule(Has(p, ResourceTerms) /\ "command" \in p,
         "get_company_onem2m_command_flow", with_onem2m_identifiers(p)),
    Rule(Has(p, ResourceTerms) /\ Has(p, {"telemetry", "notify"}),
         "get_company_onem2m_telemetry_flow", with_onem2m_identifiers(p)),
    Rule(device_id(p) /\ Has(p, {"cin", "cin_timestamp"}),
         "query_onem2m_cin_records", {"device_id"} \cup If(cin_type(p), {"cin_type"})),
    Rule(Has(p, ResourceTerms), "get_company_onem2m_device_resources", with_onem2m_identifiers(p))>>

-----------------------------------------------------------------------------
(* Company evidence.                                                          *)
CompanyRules(p) ==
  LET company == should_prefer_company_db(p)
  IN <<Rule("disconnect" \in p /\ ~Has(p, InfraTerms), "get_company_disconnected_devices", {}),
       Rule(company /\ "rule_readiness" \in p, "get_company_rule_readiness", {}),
       Rule(company /\ "coverage" \in p, "get_company_telemetry_coverage", {}),
       Rule(company /\ (Has(p, {"detail", "why"}) \/ (device_id(p) /\ Has(p, AlertTerms))),
            "get_company_device_drilldown", If(device_id(p), {"device_id"})),
       Rule(company /\ Has(p, {"threshold", "above"}),
            "scan_company_threshold", If(threshold(p), {"threshold"})),
       Rule(company /\ Has(p, AlertTerms), "get_company_provisional_alerts", {}),
       Rule(company /\ "inventory" \in p, "get_company_inventory", {}),
       Rule(company, "get_company_fleet_summary", {})>>

-----------------------------------------------------------------------------
(* Infrastructure metrics and logs.                                           *)
Broker(p) == Has(p, {"emqx", "mqtt"})

BrokerRules(p) ==
  <<Rule(Broker(p) /\ "dropped" \in p, "grafana_emqx_dropped_trend", {}),
    Rule(Broker(p) /\ "connection_count" \in p, "query_emqx_connection_count", {})>>

service_param(p) == "service_health" \in p

ScrapeRules(p) ==
  <<Rule("scrape_target" \in p
           \/ ("k8s" \in p /\ Has(p, {"consumer", "resource", "resource_check"})),
         "grafana_k8s_resources", {"namespace"} \cup If(service_param(p), {"service"})),
    Rule(queue_name(p) /\ Has(p, {"detail", "consumer"}),
         "query_rabbitmq_queue_detail", {"queue_name"})>>

LogParams(p, severe) ==
  If(log_service(p) \/ service_param(p) \/ "reconnect" \in p, {"service"})
    \cup If(device_id(p) \/ queue_name(p), {"contains"})
    \cup If(hours_back(p), {"hours_back"}) \cup If(Has(p, severe), {"level"})

LogRule(p) == Rule(explicit_logs(p) /\ "promql" \notin p, "grafana_logs",
                   LogParams(p, {"warning", "error", "exception"}))

queue_term(p) == Has(p, {"named_queue", "queue"})

TrendRules(p) ==
  <<Rule(Broker(p) /\ Has(p, {"disconnect", "reconnect"}), "grafana_emqx_connection_trend", {}),
    Rule("k8s" \in p /\ Has(p, {"resource", "resource_check"}),
         "grafana_k8s_resources", {"namespace"} \cup If(service_param(p), {"service"})),
    Rule(queue_term(p) /\ "trend" \in p, "grafana_queue_trend", If(queue_name(p), {"queue"})),
    Rule(queue_term(p) /\ "backlog" \in p,
         "grafana_queue_backlog", {"namespace", "topk", "threshold"}),
    Rule("throughput" \in p, "grafana_throughput", If(queue_name(p), {"queue"}))>>

LateLogRule(p) == Rule(explicit_logs(p), "grafana_logs", LogParams(p, {"warning"}))

HealthRules(p) ==
  <<Rule(Broker(p), "grafana_emqx_health", {}),
    Rule("k8s" \in p, "grafana_k8s_health", {}),
    Rule("redis" \in p, "grafana_redis_health", {}),
    Rule("mongo" \in p, "grafana_mongodb_health", {}),
    Rule("mysql" \in p, "grafana_mysql_health", {}),
    Rule(Has(p, {"linux", "node"}), "grafana_linux_health", {}),
    Rule(Has(p, {"java", "exception"}), "grafana_java_errors", {}),
    Rule("trace" \in p, "grafana_trace_metrics", {}),
    Rule("http" \in p, "grafana_http_health", {}),
    Rule(TRUE, "grafana_platform_service_health", {})>>

\* The first rule that holds; the last one always does.
classify_tool(p) ==
  LET rules == QueueRules(p) \o <<AeCandidateRule(p), CinLogRule(p)>> \o FlowRules(p)
                 \o Onem2mRules(p) \o CompanyRules(p) \o BrokerRules(p) \o ScrapeRules(p)
                 \o <<LogRule(p)>> \o TrendRules(p) \o <<LateLogRule(p)>> \o HealthRules(p)
      holding == {i \in DOMAIN rules : rules[i].when}
  IN rules[CHOOSE i \in holding : \A j \in holding : i <= j]
=============================================================================
