----------------------------- MODULE MCDiagnosis -----------------------------
(* Diagnosis with one request of each endpoint, both with the same question.  *)
(* A scenario is a runtime, a question and what the services do; at most one  *)
(* service fails in a scenario, and the model with the company database.      *)
EXTENDS Diagnosis

Good == [planner |-> "proposes", proposal |-> <<>>, company |-> "answers", n8n |-> "answers",
         mcp |-> "answers", model |-> "answers", tool |-> "evidence", remote |-> "answer",
         log |-> "written", target |-> "SYSTEM", replies |-> <<"final", "final", "final">>]

(* The data source: selected, and what the company database is.               *)
Sources == {<<"simulator", "up">>, <<"company", "up">>, <<"company", "down">>,
            <<"company", "unconfigured">>}

Scenario(m, source, question, w) ==
  [mode |-> m, selected |-> source[1], company |-> source[2], question |-> question, world |-> w]

-----------------------------------------------------------------------------
CalledScenarios ==
  {Scenario(m, s, [refers |-> FALSE], [Good EXCEPT !.remote = r, !.log = l]) :
     m \in Called, s \in {<<"simulator", "up">>, <<"company", "up">>},
     r \in {"answer", "silent", "object", "raises"}, l \in {"written", "raises"}}

PolicyQuestion(size, words, device) ==
  [size |-> size, words |-> words, device |-> device, source |-> "simulator"]

PolicyQuestions ==
  {PolicyQuestion("long", {}, "none")}
    \cup {PolicyQuestion("fits", words, device) :
            words \in {{}, {"history"}, {"diagnose"}}, device \in {"none", "plain", "capital"}}
    \cup {PolicyQuestion("fits", words, "none") :
            words \in {{"above"}, {"above", "number"}, {"alert", "rule"}, {"coverage"},
                       {"disconnected", "device"}, {"device"}, {"inventory"}}}

PolicyWorlds == {Good, [Good EXCEPT !.tool = "none"], [Good EXCEPT !.tool = "fails"],
                 [Good EXCEPT !.tool = "lost"], [Good EXCEPT !.model = "raises"],
                 [Good EXCEPT !.log = "raises"]}

PolicyScenarios == {Scenario("ioa_v2_langgraph", s, q, w) :
                      s \in Sources, q \in PolicyQuestions, w \in PolicyWorlds}

-----------------------------------------------------------------------------
(* Prompts that reach every family of rules and every correction of a plan.   *)
Prompts ==
  {{}, {"k8s"}, {"k8s", "resource"}, {"bare_device"}, {"named_device", "status"},
   {"named_device", "configuration"}, {"named_device", "cin"},
   {"command_flow", "logs", "mqtt", "notify"}, {"telemetry", "debug", "logs"},
   {"k8s", "linux", "redis", "mongo", "mysql"}, {"company", "above"},
   {"company", "above", "number"}, {"company", "device", "why"},
   {"company", "named_device", "alert"}, {"disconnect"}, {"logs"}, {"logs", "emqx"},
   {"named_queue", "trend"}, {"named_queue", "error"}, {"queue", "backlog"},
   {"queue", "redis", "http", "logs", "trace", "dropped"}}

OpsQuestion(size, words) ==
  [size |-> size, words |-> words, selected |-> "simulator", active |-> "simulator"]

Proposed(tool, params, confident) == [tool |-> tool, params |-> params, confident |-> confident]

(* Nothing usable; an invented tool and parameters, a tool twice and more      *)
(* tools than the budget; a tool of another domain; one not confident enough.  *)
Proposals ==
  {<<>>,
   <<Proposed("invented", {}, TRUE), Proposed("grafana_logs", {"service", "contains"}, TRUE),
     Proposed("scan_company_threshold", {"threshold"}, TRUE),
     Proposed("grafana_redis_health", {"invented"}, TRUE),
     Proposed("grafana_redis_health", {}, TRUE), Proposed("grafana_linux_health", {}, TRUE)>>,
   <<Proposed("get_company_onem2m_command_flow", {"device_id"}, TRUE),
     Proposed("get_company_inventory", {}, TRUE)>>,
   <<Proposed("query_emqx_connection_count", {}, FALSE), Proposed("grafana_java_errors", {}, TRUE)>>}

OpsWorlds ==
  {[Good EXCEPT !.proposal = p] : p \in Proposals}
    \cup {[Good EXCEPT !.planner = "fails"], [Good EXCEPT !.company = "fails"],
          [Good EXCEPT !.company = "lost"], [Good EXCEPT !.n8n = "raises"],
          [Good EXCEPT !.n8n = "text"], [Good EXCEPT !.mcp = "raises"],
          [Good EXCEPT !.model = "raises"],
          [Good EXCEPT !.company = "fails", !.model = "raises"]}

OpsScenarios ==
  {Scenario("ioa_v3_langgraph_n8n", s, OpsQuestion("fits", words), w) :
     s \in Sources \ {<<"company", "down">>}, words \in Prompts, w \in OpsWorlds}
    \cup {Scenario("ioa_v3_langgraph_n8n", <<"company", "down">>, OpsQuestion(size, {"logs"}), w) :
            size \in {"fits", "long"}, w \in {Good, [Good EXCEPT !.log = "raises"]}}
    \cup {Scenario("ioa_v3_langgraph_n8n", <<"company", "down">>, OpsQuestion("fits", words),
                   [Good EXCEPT !.company = "fails"]) :
            words \in {{"company", "above", "number"}, {"company", "device", "why"},
                       {"named_device", "status"}, {"command_flow", "logs", "mqtt", "notify"}}}

-----------------------------------------------------------------------------
Replies ==
  {<<"final", "final", "final">>, <<"prose", "final", "final">>, <<"bare", "final", "final">>,
   <<"unknown", "final", "final">>, <<"raises", "final", "final">>,
   <<"final", "unknown", "final">>, <<"final", "check_system_alarms", "final">>,
   <<"check_system_overview", "check_system_alarms", "unknown">>,
   <<"check_device_status", "get_recent_logs", "check_alarm_rules">>,
   <<"check_system_alarms", "prose", "final">>, <<"check_alarm_rules", "raises", "final">>}

CustomScenarios ==
  {Scenario("ioa_v2_custom", s, [refers |-> refers],
            [Good EXCEPT !.target = target, !.replies = replies]) :
     s \in {<<"simulator", "up">>, <<"company", "up">>}, refers \in BOOLEAN,
     target \in {"SYSTEM", "device", "garbage", "raises"}, replies \in Replies}
    \cup {Scenario("ioa_v2_custom", <<"simulator", "up">>, [refers |-> FALSE], w) :
            w \in {[Good EXCEPT !.log = "raises"], [Good EXCEPT !.model = "raises",
                                                               !.replies = <<"prose", "final", "final">>]}}

AllScenarios == CalledScenarios \cup PolicyScenarios \cup OpsScenarios \cup CustomScenarios
=============================================================================
