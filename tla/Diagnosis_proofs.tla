--------------------------- MODULE Diagnosis_proofs ---------------------------
(***************************************************************************)
(* Proofs about Diagnosis, for any number of requests and any scenarios:   *)
(* how a request ends, and what the benchmark records of it.  The agents   *)
(* enter only through what one of their steps may yield (Outcome).         *)
(***************************************************************************)
EXTENDS Diagnosis, SequenceTheorems, TLAPS

-----------------------------------------------------------------------------
(* Vocabulary. *)

EventSeq(s) == (\E S : s \in Seq(S)) /\ \A i \in DOMAIN s : s[i].type \in Types
Job == [at : {"idle", "serving", "ended", "gone"}, todo : Seq(Items), handling : BOOLEAN]

Done == {"answered", "denied", "failed", "invalid"}

Working == {"validate_request", "select_tool", "authorize_tool", "run_tool", "validate_evidence",
            "generate_answer", "await_model", "deny_request", "select_workflow",
            "authorize_workflow", "call_n8n_workflow", "apply_kpi_rules", "extract_target",
            "choose_next_step", "execute_tool", "generate_final_answer"}

\* A sequence of events that ends, and one that ends with its last event only.
Ending(s) == \E i \in DOMAIN s : Ends(s[i])
EndsLast(s) == \A i \in DOMAIN s : Ends(s[i]) => i = Len(s)
HasError(s) == \E i \in DOMAIN s : s[i].type = "error"

\* The script of a request, and how much of it is done.
Script(c) == IF c \in Streams THEN StreamScript ELSE JsonScript
Position(c) == Len(Script(c)) - Len(job[c].todo)
Logged(c, n) == IF \E i \in 1..n : Script(c)[i].type = "log" THEN <<"success">> ELSE <<>>

\* The n8n answer that can be logged and not be shown.
Unshowable(c) == c \in Streams /\ mode = "ioa_v2_n8n" /\ world.remote = "object"

Serving(c) == job[c].at = "serving" /\ ~job[c].handling

-----------------------------------------------------------------------------
(* The invariant. *)

AgentState(g) ==
  /\ {"at", "answer"} \subseteq DOMAIN g
  /\ g.at \in Working \cup Done \cup {"off", "raised", "closed"}
  /\ mode \in {"ioa_v2_langgraph", "ioa_v3_langgraph_n8n"} =>
       {"allowed", "reason", "steps"} \subseteq DOMAIN g

Typed ==
  /\ scenario \in Scenarios /\ mode \in Modes /\ world = scenario.world
  /\ job \in [Clients -> Job]
  /\ wire = [c \in Clients |-> wire[c]] /\ outbox = [c \in Clients |-> outbox[c]]
  /\ \A c \in Clients : EventSeq(wire[c]) /\ EventSeq(outbox[c])
  /\ logs \in [Clients -> Seq({"success", "error"})]
  /\ holder \in Clients \cup {Nobody}
  /\ DOMAIN graph = Clients
  /\ \A c \in Clients : AgentState(graph[c])

\* A request that is not being served has nothing left to do or to relay.
AtRest(c) ==
  /\ job[c].at # "serving" => job[c].todo = <<>> /\ outbox[c] = <<>>
  /\ job[c].at = "idle" => /\ wire[c] = <<>> /\ logs[c] = <<>> /\ ~job[c].handling
                           /\ graph[c].at = "off"
  /\ outbox[c] # <<>> => c \in Streams

\* An agent works, and has events to relay, only while its script is at it.
AtWork(c) ==
  /\ graph[c].at \in Working \/ outbox[c] # <<>> =>
       Serving(c) /\ job[c].todo = Script(c) /\ mode \in AgentModes
  /\ outbox[c] # <<>> => graph[c].at \in Working \cup Done
  /\ EndsLast(outbox[c])
  /\ Ending(outbox[c]) => graph[c].at \in Done
  /\ HasError(outbox[c]) => mode = "ioa_v2_custom"

\* What is left of the script is its end, and the row was written if it is past.
OnScript(c) ==
  /\ Serving(c) => /\ Len(job[c].todo) <= Len(Script(c))
                   /\ \A i \in DOMAIN job[c].todo : job[c].todo[i] = Script(c)[i + Position(c)]
                   /\ logs[c] = Logged(c, Position(c))
  /\ (job[c].at = "ended" /\ ~job[c].handling /\ Sent(c, "final")) =>
       logs[c] = Logged(c, Len(Script(c)))
  /\ ~job[c].handling => logs[c] \in {<<>>, <<"success">>}

\* What is left of a handler.
OnHandler(c) ==
  job[c].handling =>
    /\ \A i \in DOMAIN job[c].todo :
         /\ job[c].todo[i].type \in {"log", "observation", "error"}
         /\ job[c].todo[i].type = "log" =>
              /\ job[c].todo[i] = Log("error") /\ i = 1 /\ mode \in {"ioa_v2_n8n", "ioa_v2_dify"}
              /\ logs[c] = <<>> \/ (logs[c] = <<"success">> /\ Unshowable(c))
         /\ job[c].todo[i].type = "observation" =>
              /\ job[c].todo[i] = Observation("error") /\ c \in Streams
              /\ mode \in AgentModes => mode = "ioa_v3_langgraph_n8n"
         /\ job[c].todo[i].type = "error" => job[c].todo[i] = Error /\ i = Len(job[c].todo)
    /\ \/ logs[c] \in {<<>>, <<"success">>, <<"error">>}
       \/ logs[c] = <<"success", "error">> /\ Unshowable(c)

\* What was sent already.
OnWire(c) ==
  /\ c \notin Streams => (job[c].todo # <<>> => wire[c] = <<>>) /\ Len(wire[c]) <= 1
  /\ mode \in Called => (job[c].todo # <<>> => ~Ending(wire[c]))
  /\ (mode \in AgentModes /\ c \in Streams /\ Ending(wire[c])) =>
       /\ Serving(c) => outbox[c] = <<>> /\ graph[c].at \in Done
       /\ (job[c].handling /\ job[c].todo # <<>>) => world.log = "raises"
  /\ (mode \in AgentModes /\ c \in Streams /\ HasError(wire[c]) /\ job[c].todo # <<>>) =>
       mode = "ioa_v2_custom"
  /\ (job[c].handling /\ Sent(c, "final")) => mode \in AgentModes /\ world.log = "raises"
  /\ ~job[c].handling => EndsLast(wire[c])

EndsOnceFor(c) ==
  /\ c \notin Streams => Len(wire[c]) <= 1
  /\ \A i \in DOMAIN wire[c], j \in DOMAIN wire[c] :
       (i < j /\ Ends(wire[c][i])) =>
          /\ mode \in AgentModes /\ world.log = "raises"
          /\ wire[c][i].type # "error" \/ mode = "ioa_v2_custom"
          /\ wire[c][j].type = "observation" => mode = "ioa_v3_langgraph_n8n"

Sound(c) == AtRest(c) /\ AtWork(c) /\ OnScript(c) /\ OnHandler(c) /\ OnWire(c) /\ EndsOnceFor(c)

IInv == Typed /\ \A c \in Clients : Sound(c)
-----------------------------------------------------------------------------
(* The scripts. *)

ScriptShape(s, c) ==
  /\ s \in Seq(Items) /\ s # <<>>
  /\ mode \in AgentModes => s[1].type = "agent"
  /\ \A i \in DOMAIN s :
       /\ Ends(s[i]) => i = Len(s)
       /\ s[i].type = "log" => s[i] = Log("success")
       /\ s[i].type \in Types /\ c \notin Streams => i = Len(s)
       /\ s[i].type = "agent" => mode \in AgentModes
       /\ (mode \in AgentModes /\ c \in Streams) => s[i].type \notin Types
       /\ mode \in AgentModes => s[i].type # "call" /\ (s[i].type \in Types => Renders(s[i]))
       /\ s[i].node = "preview" => c \in Streams /\ mode = "ioa_v2_n8n"
       /\ s[i].node = "first_step" => mode = "ioa_v2_langchain"
  /\ \A i, j \in DOMAIN s : s[i].type = "log" =>
       (s[j].type = "log" => i = j) /\ (s[j].type = "call" => j < i)
  /\ (\E i \in DOMAIN s : s[i].type = "log") <=> ~(c \in Streams /\ mode = "ioa_v1_custom")

LEMMA ItemsTyped ==
  ASSUME NEW t \in Types \cup {"agent", "call", "log"}, NEW n \in Nodes
  PROVE  [type |-> t, node |-> n] \in Items
BY DEF Items

LEMMA ItemsAre ==
  /\ \A n \in Nodes : /\ Thought(n) \in Items /\ Observation(n) \in Items
                       /\ Final(n) \in Items /\ Log(n) \in Items
  /\ Error \in Items /\ Agent \in Items /\ Call \in Items
BY ItemsTyped DEF Thought, Observation, Final, Log, Error, Agent, Call, Types, Nodes

LEMMA JsonShape ==
  ASSUME NEW c, c \notin Streams, mode \in Modes
  PROVE  ScriptShape(JsonScript, c)
<1> DEFINE first == IF mode \in Called THEN Call ELSE Agent
<1>1. /\ JsonScript = <<first, Log("success"), Final("answer")>>
      /\ Log("success") \in Items /\ Final("answer") \in Items
      /\ first \in Items
      /\ first = IF mode \in AgentModes THEN Agent ELSE Call
  BY ItemsAre DEF JsonScript, AgentModes, Nodes
<1>2. first.type \in {"call", "agent"} /\ first.node = "none"
      /\ (first.type = "agent" <=> mode \in AgentModes)
  BY <1>1 DEF Call, Agent
<1> HIDE DEF first
<1>3. QED
  BY <1>1, <1>2 DEF ScriptShape, Ends, Types, Renders, Log, Final, AgentModes

LEMMA AgentStreamShape ==
  ASSUME NEW c, c \in Streams, mode \in AgentModes
  PROVE  ScriptShape(StreamScript, c)
<1>1. StreamScript = <<Agent, Log("success")>>
  BY DEF StreamScript, AgentModes, Modes, Called
<1>2. Agent \in Items /\ Log("success") \in Items
  BY ItemsAre DEF Nodes
<1>3. QED
  BY <1>1, <1>2 DEF ScriptShape, Ends, Types, Renders, Log, Agent, AgentModes, Called, Modes

LEMMA V1Shape ==
  ASSUME NEW c, c \in Streams, mode = "ioa_v1_custom"
  PROVE  ScriptShape(StreamScript, c)
<1>1. StreamScript = <<Call, Final("answer")>>
  BY DEF StreamScript
<1>2. Call \in Items /\ Final("answer") \in Items
  BY ItemsAre DEF Nodes
<1>3. QED
  BY <1>1, <1>2 DEF ScriptShape, Ends, Types, Renders, Call, Final, AgentModes, Called, Modes

LEMMA LangchainShape ==
  ASSUME NEW c, c \in Streams, mode = "ioa_v2_langchain"
  PROVE  ScriptShape(StreamScript, c)
<1> DEFINE s == StreamScript
<1>1. /\ Thought("create_agent") \in Items /\ Observation("create_agent") \in Items /\ Thought("agent_loop") \in Items
      /\ Call \in Items /\ Log("success") \in Items /\ Observation("first_step") \in Items
      /\ Thought("step") \in Items /\ Observation("step") \in Items /\ Final("answer") \in Items
  BY ItemsAre DEF Nodes
<1>2. s \in Seq(Items)
  BY <1>1, ConcatProperties DEF StreamScript, Relayed
<1>3. s # <<>> /\ Len(s) = 9 /\ DOMAIN s = 1..9 /\ s[5] = Log("success")
  BY DEF StreamScript, Relayed
<1>4. /\ s[1].type = "thought" /\ s[1].node = "create_agent"
      /\ s[2].type = "observation" /\ s[2].node = "create_agent"
      /\ s[3].type = "thought" /\ s[3].node = "agent_loop"
      /\ s[4].type = "call" /\ s[4].node = "none"
      /\ s[5].type = "log" /\ s[5].node = "success"
      /\ s[6].type = "observation" /\ s[6].node = "first_step"
      /\ s[7].type = "thought" /\ s[7].node = "step"
      /\ s[8].type = "observation" /\ s[8].node = "step"
      /\ s[9].type = "final" /\ s[9].node = "answer"
  BY DEF StreamScript, Relayed, Thought, Observation, Call, Log, Final
<1> HIDE DEF s
<1>5. mode \in Called /\ mode \notin AgentModes
  BY DEF AgentModes, Called
<1>6. ScriptShape(s, c)
  BY <1>2, <1>3, <1>4, <1>5 DEF ScriptShape, Ends, Types
<1>7. QED
  BY <1>6 DEF s

LEMMA N8nShape ==
  ASSUME NEW c, c \in Streams, mode = "ioa_v2_n8n"
  PROVE  ScriptShape(StreamScript, c)
<1> DEFINE s == StreamScript
<1>1. /\ Thought("webhook") \in Items /\ Observation("webhook") \in Items /\ Thought("workflow") \in Items
      /\ Call \in Items /\ Log("success") \in Items /\ Observation("preview") \in Items
      /\ Thought("step") \in Items /\ Observation("step") \in Items /\ Final("answer") \in Items
  BY ItemsAre DEF Nodes
<1>2. s \in Seq(Items)
  BY <1>1, ConcatProperties DEF StreamScript, Relayed
<1>3. s # <<>> /\ Len(s) = 9 /\ DOMAIN s = 1..9 /\ s[5] = Log("success")
  BY DEF StreamScript, Relayed
<1>4. /\ s[1].type = "thought" /\ s[1].node = "webhook"
      /\ s[2].type = "observation" /\ s[2].node = "webhook"
      /\ s[3].type = "thought" /\ s[3].node = "workflow"
      /\ s[4].type = "call" /\ s[4].node = "none"
      /\ s[5].type = "log" /\ s[5].node = "success"
      /\ s[6].type = "observation" /\ s[6].node = "preview"
      /\ s[7].type = "thought" /\ s[7].node = "step"
      /\ s[8].type = "observation" /\ s[8].node = "step"
      /\ s[9].type = "final" /\ s[9].node = "answer"
  BY DEF StreamScript, Relayed, Thought, Observation, Call, Log, Final
<1> HIDE DEF s
<1>5. mode \in Called /\ mode \notin AgentModes
  BY DEF AgentModes, Called
<1>6. ScriptShape(s, c)
  BY <1>2, <1>3, <1>4, <1>5 DEF ScriptShape, Ends, Types
<1>7. QED
  BY <1>6 DEF s

LEMMA DifyShape ==
  ASSUME NEW c, c \in Streams, mode = "ioa_v2_dify"
  PROVE  ScriptShape(StreamScript, c)
<1> DEFINE s == StreamScript
<1>1. /\ Thought("chat_api") \in Items /\ Call \in Items /\ Log("success") \in Items
      /\ Observation("step") \in Items /\ Thought("step") \in Items /\ Final("answer") \in Items
  BY ItemsAre DEF Nodes
<1>2. s \in Seq(Items)
  BY <1>1, ConcatProperties DEF StreamScript, Relayed
<1>3. s # <<>> /\ Len(s) = 7 /\ DOMAIN s = 1..7 /\ s[3] = Log("success")
  BY DEF StreamScript, Relayed
<1>4. /\ s[1].type = "thought" /\ s[1].node = "chat_api"
      /\ s[2].type = "call" /\ s[2].node = "none"
      /\ s[3].type = "log" /\ s[3].node = "success"
      /\ s[4].type = "observation" /\ s[4].node = "step"
      /\ s[5].type = "thought" /\ s[5].node = "step"
      /\ s[6].type = "observation" /\ s[6].node = "step"
      /\ s[7].type = "final" /\ s[7].node = "answer"
  BY DEF StreamScript, Relayed, Thought, Observation, Call, Log, Final
<1> HIDE DEF s
<1>5. mode \in Called /\ mode \notin AgentModes
  BY DEF AgentModes, Called
<1>6. ScriptShape(s, c)
  BY <1>2, <1>3, <1>4, <1>5 DEF ScriptShape, Ends, Types
<1>7. QED
  BY <1>6 DEF s

LEMMA ScriptsAreShaped ==
  ASSUME mode \in Modes, NEW c
  PROVE  ScriptShape(Script(c), c)
<1>1. CASE c \notin Streams
  BY <1>1, JsonShape DEF Script
<1>2. CASE c \in Streams /\ mode \in AgentModes
  BY <1>2, AgentStreamShape DEF Script
<1>3. CASE c \in Streams /\ mode \in Called
  BY <1>3, V1Shape, LangchainShape, N8nShape, DifyShape DEF Script, Called
<1>4. QED
  BY <1>1, <1>2, <1>3 DEF AgentModes

LEMMA LoggedBy ==
  ASSUME mode \in Modes, NEW c, NEW n \in Nat, n + 1 \in DOMAIN Script(c)
  PROVE  /\ Script(c)[n + 1].type = "log" =>
              Logged(c, n) = <<>> /\ Logged(c, n + 1) = <<"success">>
         /\ Script(c)[n + 1].type # "log" => Logged(c, n + 1) = Logged(c, n)
         /\ Script(c)[n + 1].type = "call" => Logged(c, n) = <<>>
         /\ Logged(c, n) \in {<<>>, <<"success">>}
<1> DEFINE s == Script(c)
<1>1. ScriptShape(s, c)
  BY ScriptsAreShaped
<1>2. s \in Seq(Items) /\ DOMAIN s = 1..Len(s) /\ Len(s) \in Nat
  BY <1>1 DEF ScriptShape
<1>3. \A i \in 1..n + 1 : i \in DOMAIN s /\ (i = n + 1 \/ i \in 1..n)
  BY <1>2
<1>4. \A i, j \in DOMAIN s : s[i].type = "log" =>
        (s[j].type = "log" => i = j) /\ (s[j].type = "call" => j < i)
  BY <1>1 DEF ScriptShape
<1> HIDE DEF s
<1>5. s[n + 1].type = "log" => ~\E i \in 1..n : s[i].type = "log"
  BY <1>2, <1>3, <1>4
<1>6. s[n + 1].type = "call" => ~\E i \in 1..n : s[i].type = "log"
  BY <1>2, <1>3, <1>4
<1>7. (\E i \in 1..n + 1 : s[i].type = "log") <=> (s[n + 1].type = "log" \/ \E i \in 1..n : s[i].type = "log")
  BY <1>2, <1>3
<1>8. QED
  BY <1>5, <1>6, <1>7 DEF s, Logged

LEMMA LoggedAtLast ==
  ASSUME mode \in Modes, NEW c
  PROVE  Logged(c, Len(Script(c))) =
           IF c \in Streams /\ mode = "ioa_v1_custom" THEN <<>> ELSE <<"success">>
<1>1. ScriptShape(Script(c), c)
  BY ScriptsAreShaped
<1>2. DOMAIN Script(c) = 1..Len(Script(c))
  BY <1>1 DEF ScriptShape
<1>3. QED
  BY <1>1, <1>2 DEF Logged, ScriptShape

(* What a handler does, whatever failed. *)
HandlerShape(h, c) ==
  /\ h \in Seq(Items) /\ h # <<>>
  /\ \A i \in DOMAIN h :
       /\ h[i].type \in {"log", "observation", "error"}
       /\ h[i].type = "log" => h[i] = Log("error") /\ i = 1 /\ mode \in {"ioa_v2_n8n", "ioa_v2_dify"}
       /\ h[i].type = "observation" => /\ h[i] = Observation("error") /\ c \in Streams
                                       /\ mode \in AgentModes => mode = "ioa_v3_langgraph_n8n"
       /\ h[i].type = "error" => h[i] = Error /\ i = Len(h)

LEMMA ErrorShape ==
  ASSUME NEW c
  PROVE  HandlerShape(<<Error>>, c)
BY ItemsAre DEF HandlerShape, Error

LEMMA HandlersAreShaped ==
  ASSUME NEW c, mode \in Modes
  PROVE  HandlerShape(Handler(c), c)
<1> USE ItemsAre DEF Nodes
<1>0. Log("error").type = "log" /\ Observation("error").type = "observation" /\ Error.type = "error"
  BY DEF Log, Observation, Error
<1>1. CASE mode \in {"ioa_v2_n8n", "ioa_v2_dify"} /\ c \in Streams
  <2>1. Handler(c) = <<Log("error")>> \o <<Observation("error")>> \o <<Error>>
    BY <1>1 DEF Handler
  <2>2. /\ Handler(c) \in Seq(Items) /\ Len(Handler(c)) = 3 /\ DOMAIN Handler(c) = 1..3
        /\ Handler(c)[1] = Log("error") /\ Handler(c)[2] = Observation("error")
        /\ Handler(c)[3] = Error
    BY <2>1, ConcatProperties
  <2>3. mode \notin AgentModes
    BY <1>1 DEF AgentModes, Called
  <2>4. QED
    <3> DEFINE h == Handler(c)
    <3>0. h \in Seq(Items) /\ Len(h) # 0 /\ \A i \in DOMAIN h : i = 1 \/ i = 2 \/ i = 3
      BY <2>2
    <3>1. h # <<>>
      BY <3>0, EmptySeq
    <3> HIDE DEF h
    <3>2. h \in Seq(Items) /\ Len(h) = 3 /\ h[1] = Log("error") /\ h[2] = Observation("error")
            /\ h[3] = Error
      BY <2>2 DEF h
    <3>3. HandlerShape(h, c)
      BY <1>1, <1>0, <2>3, <3>0, <3>1, <3>2 DEF HandlerShape
    <3>4. QED
      BY <3>3 DEF h
<1>2. CASE mode \in {"ioa_v2_n8n", "ioa_v2_dify"} /\ c \notin Streams
  <2>1. Handler(c) = <<Log("error")>> \o <<>> \o <<Error>>
    BY <1>2 DEF Handler
  <2>2. /\ Handler(c) \in Seq(Items) /\ Len(Handler(c)) = 2 /\ DOMAIN Handler(c) = 1..2
        /\ Handler(c)[1] = Log("error") /\ Handler(c)[2] = Error
    BY <2>1, ConcatProperties
  <2>3. QED
    <3> DEFINE h == Handler(c)
    <3>0. h \in Seq(Items) /\ Len(h) # 0 /\ \A i \in DOMAIN h : i = 1 \/ i = 2
      BY <2>2
    <3>1. h # <<>>
      BY <3>0, EmptySeq
    <3> HIDE DEF h
    <3>2. h \in Seq(Items) /\ Len(h) = 2 /\ h[1] = Log("error") /\ h[2] = Error
      BY <2>2 DEF h
    <3>3. HandlerShape(h, c)
      BY <1>2, <1>0, <3>0, <3>1, <3>2 DEF HandlerShape
    <3>4. QED
      BY <3>3 DEF h
<1>3. CASE mode = "ioa_v3_langgraph_n8n" /\ c \in Streams
  <2>1. Handler(c) = <<Observation("error"), Error>>
    BY <1>3 DEF Handler
  <2>2. QED
    BY <1>3, <2>1 DEF HandlerShape, Log, Observation, Error
<1>4. CASE /\ mode \notin {"ioa_v2_n8n", "ioa_v2_dify"}
           /\ ~(mode = "ioa_v3_langgraph_n8n" /\ c \in Streams)
  <2>1. Handler(c) = <<Error>>
    BY <1>4 DEF Handler
  <2>2. QED
    BY <2>1, ErrorShape
<1>5. QED
  BY <1>1, <1>2, <1>3, <1>4

-----------------------------------------------------------------------------
(* Events. *)

LEMMA EventAppended ==
  ASSUME NEW s, EventSeq(s), NEW e, e.type \in Types
  PROVE  /\ EventSeq(Append(s, e)) /\ Len(s) \in Nat /\ Len(Append(s, e)) = Len(s) + 1
         /\ DOMAIN s = 1..Len(s) /\ DOMAIN Append(s, e) = 1..Len(s) + 1
         /\ \A i \in DOMAIN s : Append(s, e)[i] = s[i]
         /\ Append(s, e)[Len(s) + 1] = e
<1>1. PICK S : s \in Seq(S)
  BY DEF EventSeq
<1>2. s \in Seq(S \cup {e})
  BY <1>1
<1>3. Append(s, e) \in Seq(S \cup {e})
  BY <1>2
<1>4. QED
  BY <1>2, <1>3 DEF EventSeq

LEMMA EventTaken ==
  ASSUME NEW s, EventSeq(s), s # <<>>
  PROVE  /\ EventSeq(Tail(s)) /\ Len(s) \in Nat \ {0} /\ Len(Tail(s)) = Len(s) - 1
         /\ DOMAIN s = 1..Len(s) /\ DOMAIN Tail(s) = 1..Len(s) - 1
         /\ \A i \in DOMAIN Tail(s) : Tail(s)[i] = s[i + 1]
         /\ Head(s) = s[1] /\ Head(s).type \in Types
<1>1. PICK S : s \in Seq(S)
  BY DEF EventSeq
<1>2. /\ Len(s) \in Nat \ {0} /\ Len(Tail(s)) = Len(s) - 1 /\ Tail(s) \in Seq(S)
      /\ DOMAIN s = 1..Len(s) /\ DOMAIN Tail(s) = 1..Len(s) - 1
      /\ \A i \in DOMAIN Tail(s) : Tail(s)[i] = s[i + 1]
      /\ Head(s) = s[1]
  BY <1>1
<1>3. QED
  BY <1>2 DEF EventSeq

(* What a step of an agent yields. *)
Yielded(ev, at) ==
  /\ EventSeq(ev) /\ EndsLast(ev)
  /\ Ending(ev) => at \in Done
  /\ HasError(ev) => mode = "ioa_v2_custom"
  /\ ev # <<>> => at # "raised"

LEMMA NothingYielded ==
  ASSUME NEW at
  PROVE  Yielded(<<>>, at)
<1>1. <<>> \in Seq({}) /\ DOMAIN <<>> = {}
  OBVIOUS
<1>2. QED
  BY <1>1 DEF Yielded, EventSeq, EndsLast, Ending, HasError

LEMMA OneYielded ==
  ASSUME NEW e, e.type \in Types, NEW at, at # "raised", Ends(e) => at \in Done,
         e.type = "error" => mode = "ioa_v2_custom"
  PROVE  Yielded(<<e>>, at)
<1>1. <<e>> \in Seq({e}) /\ DOMAIN <<e>> = {1} /\ Len(<<e>>) = 1 /\ <<e>>[1] = e
  OBVIOUS
<1>2. QED
  BY <1>1 DEF Yielded, EventSeq, EndsLast, Ending, HasError

LEMMA TwoYielded ==
  ASSUME NEW e, NEW f, e.type \in {"thought", "observation"}, f.type \in Types \ {"error"},
         NEW at, at # "raised", Ends(f) => at \in Done
  PROVE  Yielded(<<e, f>>, at)
<1>1. /\ <<e, f>> \in Seq({e, f}) /\ DOMAIN <<e, f>> = {1, 2} /\ Len(<<e, f>>) = 2
      /\ <<e, f>>[1] = e /\ <<e, f>>[2] = f
  OBVIOUS
<1>2. QED
  BY <1>1 DEF Yielded, EventSeq, EndsLast, Ending, HasError, Ends, Types

LEMMA ThreeYielded ==
  ASSUME NEW node, NEW answer, NEW at \in Done
  PROVE  Yielded(StepEvents(node) \o <<Final(answer)>>, at)
<1> DEFINE ev == StepEvents(node) \o <<Final(answer)>>
           S == {Thought(node), Observation(node), Final(answer)}
<1>1. StepEvents(node) \in Seq(S) /\ <<Final(answer)>> \in Seq(S)
  BY DEF StepEvents
<1>2. /\ ev \in Seq(S) /\ Len(ev) = 3 /\ DOMAIN ev = 1..3
      /\ ev[1] = Thought(node) /\ ev[2] = Observation(node) /\ ev[3] = Final(answer)
  BY <1>1, ConcatProperties DEF StepEvents
<1>3. /\ ev[1].type = "thought" /\ ev[2].type = "observation" /\ ev[3].type = "final"
  BY <1>2 DEF Thought, Observation, Final
<1>4. \A i \in DOMAIN ev : i = 1 \/ i = 2 \/ i = 3
  BY <1>2
<1> HIDE DEF ev, S
<1>5. Yielded(ev, at)
  BY <1>2, <1>3, <1>4 DEF Yielded, EventSeq, EndsLast, Ending, HasError, Ends, Types, Done
<1>6. QED
  BY <1>5 DEF ev

LEMMA StepYielded ==
  ASSUME NEW node, NEW at, at # "raised"
  PROVE  Yielded(StepEvents(node), at)
<1>1. Thought(node).type = "thought" /\ Observation(node).type = "observation"
  BY DEF Thought, Observation
<1>2. Yielded(<<Thought(node), Observation(node)>>, at)
  BY <1>1, TwoYielded DEF Types, Ends
<1>3. QED
  BY <1>2 DEF StepEvents

Outcome(c) ==
  /\ graph[c].at \in Working /\ outbox[c] = <<>>
  /\ world' = world
  /\ DOMAIN graph' = Clients
  /\ AgentState(graph'[c])
  /\ graph'[c].at \in Working \cup Done \cup {"raised"}
  /\ outbox' = [d \in Clients |-> outbox'[d]]
  /\ \A d \in Clients \ {c} : graph'[d] = graph[d] /\ outbox'[d] = outbox[d]
  /\ c \notin Streams => outbox'[c] = <<>>
  /\ Yielded(outbox'[c], graph'[c].at)

\* How every node of an agent ends.
LEMMA Outcomes ==
  ASSUME Typed, NEW c \in Clients, NEW g, NEW ev,
         graph[c].at \in Working, outbox[c] = <<>>, world' = world,
         graph' = [graph EXCEPT ![c] = g], outbox' = [outbox EXCEPT ![c] = ev],
         AgentState(g), g.at \in Working \cup Done \cup {"raised"},
         c \notin Streams => ev = <<>>, Yielded(ev, g.at)
  PROVE  Outcome(c)
BY DEF Outcome, Typed
-----------------------------------------------------------------------------
(* The steps of the three agents. *)

Fields == {"at", "answer", "allowed", "reason", "steps"}

\* The instances have the events of StreamEvents.
LEMMA SameEvents ==
  /\ \A n : /\ Policy!StepEvents(n) = StepEvents(n) /\ Policy!Thought(n) = Thought(n)
            /\ Policy!Observation(n) = Observation(n) /\ Policy!Final(n) = Final(n)
  /\ \A n : Ops!StepEvents(n) = StepEvents(n) /\ Ops!Final(n) = Final(n)
  /\ \A n : /\ React!StepEvents(n) = StepEvents(n) /\ React!Thought(n) = Thought(n)
            /\ React!Observation(n) = Observation(n) /\ React!Final(n) = Final(n)
  /\ React!Error = Error
BY DEF StepEvents, Thought, Observation, Final, Error,
       Policy!StepEvents, Policy!Thought, Policy!Observation, Policy!Final,
       Ops!StepEvents, Ops!Thought, Ops!Observation, Ops!Final,
       React!StepEvents, React!Thought, React!Observation, React!Final, React!Error

LEMMA PolicyLeaves ==
  ASSUME Typed, mode = "ioa_v2_langgraph", NEW c \in Clients, NEW node, NEW result,
         Policy!Leaves(c, node, result), Fields \subseteq DOMAIN result,
         graph[c].at \in Working, outbox[c] = <<>>,
         Policy!Route(c, node, result.allowed) \in Working
  PROVE  Outcome(c)
<1> DEFINE g == [result EXCEPT !.steps = Append(@, node),
                               !.at = Policy!Route(c, node, result.allowed)]
           ev == IF c \in Streams THEN StepEvents(node) ELSE <<>>
<1>1. /\ graph' = [graph EXCEPT ![c] = g] /\ outbox' = [outbox EXCEPT ![c] = ev]
      /\ world' = world
  BY SameEvents DEF Policy!Leaves
<1>2. DOMAIN g = DOMAIN result /\ g.at = Policy!Route(c, node, result.allowed)
  BY DEF Fields
<1> HIDE DEF g
<1>3. AgentState(g)
  BY <1>2 DEF AgentState, Fields
<1>4. Yielded(ev, g.at)
  BY <1>2, NothingYielded, StepYielded DEF Working
<1> HIDE DEF ev
<1>5. c \notin Streams => ev = <<>>
  BY DEF ev
<1>6. QED
  BY <1>1, <1>2, <1>3, <1>4, <1>5, Outcomes

LEMMA VerdictFields ==
  ASSUME NEW g, NEW ok, NEW checks
  PROVE  DOMAIN Policy!Verdict(g, ok, checks) = DOMAIN g
BY DEF Policy!Verdict

LEMMA PolicyRaises ==
  ASSUME Typed, mode = "ioa_v2_langgraph", NEW c \in Clients, NEW g,
         Policy!Raises(c, g), Fields \subseteq DOMAIN g,
         graph[c].at \in Working, outbox[c] = <<>>
  PROVE  Outcome(c)
<1> DEFINE r == [g EXCEPT !.at = "raised"]
<1>1. graph' = [graph EXCEPT ![c] = r] /\ world' = world
  BY DEF Policy!Raises
<1>2. outbox' = [outbox EXCEPT ![c] = <<>>]
  BY DEF Policy!Raises, Typed
<1>3. DOMAIN r = DOMAIN g /\ r.at = "raised"
  BY DEF Fields
<1> HIDE DEF r
<1>4. AgentState(r)
  BY <1>3 DEF AgentState, Fields
<1>5. QED
  BY <1>1, <1>2, <1>3, <1>4, NothingYielded, Outcomes

LEMMA PolicyEdges ==
  ASSUME NEW c, NEW allowed, NEW node \in {"validate_request", "select_tool", "authorize_tool",
                                           "run_tool", "validate_evidence"}
  PROVE  Policy!Route(c, node, allowed) \in Working
BY DEF Policy!Route, Policy!After, Working

LEMMA PolicySteps ==
  ASSUME Typed, mode = "ioa_v2_langgraph", NEW c \in Clients, Policy!Step(c)
  PROVE  Outcome(c)
<1> DEFINE g == graph[c]
<1>0. Fields \subseteq DOMAIN g
  BY DEF Typed, AgentState, Fields
<1>1. CASE Policy!ValidateRequest(c)
  <2>1. PICK ok, checks : Policy!Leaves(c, "validate_request", Policy!Verdict(g, ok, checks))
    BY <1>1 DEF Policy!ValidateRequest
  <2>2. g.at \in Working /\ outbox[c] = <<>>
    BY <1>1 DEF Policy!ValidateRequest, Policy!Enters, Working
  <2>3. QED
    BY <1>0, <2>1, <2>2, VerdictFields, PolicyEdges, PolicyLeaves
<1>2. CASE Policy!SelectTool(c)
  <2>1. PICK intent, tool : Policy!Leaves(c, "select_tool", [g EXCEPT !.intent = intent, !.tool = tool])
    BY <1>2 DEF Policy!SelectTool
  <2>2. g.at \in Working /\ outbox[c] = <<>>
    BY <1>2 DEF Policy!SelectTool, Policy!Enters, Working
  <2>3. DOMAIN [g EXCEPT !.intent = intent, !.tool = tool] = DOMAIN g
    OBVIOUS
  <2>4. QED
    BY <1>0, <2>1, <2>2, <2>3, PolicyEdges, PolicyLeaves
<1>3. CASE Policy!AuthorizeTool(c)
  <2>1. PICK ok, checks : Policy!Leaves(c, "authorize_tool", Policy!Verdict(g, ok, checks))
    BY <1>3 DEF Policy!AuthorizeTool
  <2>2. g.at \in Working /\ outbox[c] = <<>>
    BY <1>3 DEF Policy!AuthorizeTool, Policy!Enters, Working
  <2>3. QED
    BY <1>0, <2>1, <2>2, VerdictFields, PolicyEdges, PolicyLeaves
<1>4. CASE Policy!RunTool(c)
  <2>1. PICK reads, executions, evidence :
          LET read == [g EXCEPT !.reads = reads, !.executions = executions]
          IN Policy!Raises(c, g) \/ Policy!Raises(c, read)
             \/ Policy!Leaves(c, "run_tool", [read EXCEPT !.evidence = evidence])
    BY <1>4 DEF Policy!RunTool
  <2>2. g.at \in Working /\ outbox[c] = <<>>
    BY <1>4 DEF Policy!RunTool, Policy!Enters, Working
  <2> DEFINE read == [g EXCEPT !.reads = reads, !.executions = executions]
             seen == [read EXCEPT !.evidence = evidence]
  <2>3. DOMAIN read = DOMAIN g /\ DOMAIN seen = DOMAIN g
    OBVIOUS
  <2>4. Policy!Raises(c, g) \/ Policy!Raises(c, read) \/ Policy!Leaves(c, "run_tool", seen)
    BY <2>1
  <2> HIDE DEF read, seen
  <2>5. QED
    BY <1>0, <2>2, <2>3, <2>4, PolicyEdges, PolicyLeaves, PolicyRaises
<1>5. CASE Policy!ValidateEvidence(c)
  <2>1. PICK ok, checks : Policy!Leaves(c, "validate_evidence", Policy!Verdict(g, ok, checks))
    BY <1>5 DEF Policy!ValidateEvidence
  <2>2. g.at \in Working /\ outbox[c] = <<>>
    BY <1>5 DEF Policy!ValidateEvidence, Policy!Enters, Working
  <2>3. QED
    BY <1>0, <2>1, <2>2, VerdictFields, PolicyEdges, PolicyLeaves
<1>6. CASE Policy!AnnounceAnswer(c)
  <2> DEFINE r == [g EXCEPT !.at = "await_model"]
             ev == <<Thought("generate_answer")>>
  <2>1. /\ graph' = [graph EXCEPT ![c] = r] /\ outbox' = [outbox EXCEPT ![c] = ev]
        /\ world' = world /\ g.at \in Working /\ outbox[c] = <<>> /\ c \in Streams
    BY <1>6, SameEvents DEF Policy!AnnounceAnswer, Policy!Enters, Working, Typed
  <2>2. DOMAIN r = DOMAIN g /\ r.at = "await_model"
    BY <1>0 DEF Fields
  <2>3. Yielded(ev, r.at)
    BY <2>2, OneYielded DEF Thought, Types, Ends
  <2> HIDE DEF r, ev
  <2>4. AgentState(r)
    BY <1>0, <2>2 DEF AgentState, Fields, Working
  <2>5. r.at \in Working /\ (c \notin Streams => ev = <<>>)
    BY <2>1, <2>2 DEF Working
  <2>6. QED
    BY <2>1, <2>3, <2>4, <2>5, Outcomes
<1>7. CASE Policy!GenerateAnswer(c)
  <2>1. g.at \in Working /\ outbox[c] = <<>>
    BY <1>7 DEF Policy!GenerateAnswer, Policy!Enters, Working
  <2> DEFINE asked == [g EXCEPT !.prompts = @ + 1]
             r == [asked EXCEPT !.at = "answered", !.answer = "answer",
                                !.steps = IF c \in Streams THEN @ ELSE Append(@, "generate_answer")]
             ev == IF c \in Streams THEN <<Observation("generate_answer"), Final("answer")>> ELSE <<>>
  <2>2. DOMAIN asked = DOMAIN g /\ DOMAIN r = DOMAIN g /\ r.at = "answered"
    BY <1>0 DEF Fields
  <2>3. \/ Policy!Raises(c, asked)
        \/ /\ graph' = [graph EXCEPT ![c] = r] /\ outbox' = [outbox EXCEPT ![c] = ev]
           /\ world' = world
    BY <1>7, SameEvents DEF Policy!GenerateAnswer
  <2>4. Yielded(ev, r.at)
    <3>1. CASE c \in Streams
      BY <2>2, <3>1, TwoYielded DEF Observation, Final, Types, Ends, Done
    <3>2. CASE c \notin Streams
      BY <3>2, NothingYielded
    <3>3. QED
      BY <3>1, <3>2
  <2>5. c \notin Streams => ev = <<>>
    OBVIOUS
  <2> HIDE DEF asked, r, ev
  <2>6. AgentState(r)
    BY <1>0, <2>2 DEF AgentState, Fields, Done
  <2>7. QED
    BY <1>0, <2>1, <2>2, <2>3, <2>4, <2>5, <2>6, PolicyRaises, Outcomes DEF Done
<1>8. CASE Policy!DenyRequest(c)
  <2> DEFINE r == [g EXCEPT !.at = "denied", !.answer = g.reason, !.evidence = "error",
                            !.steps = Append(@, "deny_request")]
             ev == IF c \in Streams THEN <<Final(g.reason)>> ELSE <<>>
  <2>1. /\ graph' = [graph EXCEPT ![c] = r] /\ outbox' = [outbox EXCEPT ![c] = ev]
        /\ world' = world /\ g.at \in Working /\ outbox[c] = <<>>
    BY <1>8, SameEvents DEF Policy!DenyRequest, Policy!Enters, Working, Typed
  <2>2. DOMAIN r = DOMAIN g /\ r.at = "denied"
    BY <1>0 DEF Fields
  <2>3. Yielded(ev, r.at)
    BY <2>2, NothingYielded, OneYielded DEF Final, Types, Ends, Done
  <2>4. c \notin Streams => ev = <<>>
    OBVIOUS
  <2> HIDE DEF r, ev
  <2>5. AgentState(r)
    BY <1>0, <2>2 DEF AgentState, Fields, Done
  <2>6. QED
    BY <2>1, <2>2, <2>3, <2>4, <2>5, Outcomes DEF Done
<1>9. QED
  BY <1>1, <1>2, <1>3, <1>4, <1>5, <1>6, <1>7, <1>8 DEF Policy!Step

LEMMA OpsLeaves ==
  ASSUME Typed, mode = "ioa_v3_langgraph_n8n", NEW c \in Clients, NEW node, NEW result,
         Ops!Leaves(c, node, result), Fields \subseteq DOMAIN result,
         graph[c].at \in Working, outbox[c] = <<>>,
         Ops!Route(c, node, result.allowed) \in Working
  PROVE  Outcome(c)
<1> DEFINE g == [result EXCEPT !.steps = Append(@, node),
                               !.at = Ops!Route(c, node, result.allowed)]
           ev == IF c \in Streams THEN StepEvents(node) ELSE <<>>
<1>1. /\ graph' = [graph EXCEPT ![c] = g] /\ outbox' = [outbox EXCEPT ![c] = ev]
      /\ world' = world
  BY SameEvents DEF Ops!Leaves, Ops!Yields
<1>2. DOMAIN g = DOMAIN result /\ g.at = Ops!Route(c, node, result.allowed)
  BY DEF Fields
<1> HIDE DEF g
<1>3. AgentState(g)
  BY <1>2 DEF AgentState, Fields
<1>4. Yielded(ev, g.at)
  BY <1>2, NothingYielded, StepYielded DEF Working
<1> HIDE DEF ev
<1>5. c \notin Streams => ev = <<>>
  BY DEF ev
<1>6. QED
  BY <1>1, <1>2, <1>3, <1>4, <1>5, Outcomes

LEMMA OpsEdges ==
  ASSUME NEW c, NEW allowed, NEW node \in {"validate_request", "select_workflow",
                                           "authorize_workflow", "call_n8n_workflow",
                                           "apply_kpi_rules"}
  PROVE  Ops!Route(c, node, allowed) \in Working
BY DEF Ops!Route, Ops!After, Working

LEMMA OpsRaises ==
  ASSUME Typed, mode = "ioa_v3_langgraph_n8n", NEW c \in Clients, NEW g,
         Ops!Raises(c, g), Fields \subseteq DOMAIN g,
         graph[c].at \in Working, outbox[c] = <<>>
  PROVE  Outcome(c)
<1> DEFINE r == IF c \in Streams
                THEN [g EXCEPT !.at = "failed", !.answer = "apology",
                               !.steps = Append(@, "runtime_error")]
                ELSE [g EXCEPT !.at = "raised"]
           ev == IF c \in Streams THEN StepEvents("runtime_error") \o <<Final("apology")>> ELSE <<>>
<1>1. /\ graph' = [graph EXCEPT ![c] = r] /\ outbox' = [outbox EXCEPT ![c] = ev]
      /\ world' = world
  BY SameEvents DEF Ops!Raises, Ops!Yields
<1>2. DOMAIN r = DOMAIN g /\ r.at = IF c \in Streams THEN "failed" ELSE "raised"
  BY DEF Fields
<1>3. Yielded(ev, r.at)
  BY <1>2, NothingYielded, ThreeYielded DEF Done
<1>4. c \notin Streams => ev = <<>>
  OBVIOUS
<1> HIDE DEF r, ev
<1>5. AgentState(r)
  BY <1>2 DEF AgentState, Fields, Done
<1>6. r.at \in Done \cup {"raised"}
  BY <1>2 DEF Done
<1>7. QED
  BY <1>1, <1>3, <1>4, <1>5, <1>6, Outcomes

LEMMA OpsSteps ==
  ASSUME Typed, mode = "ioa_v3_langgraph_n8n", NEW c \in Clients, Ops!Step(c)
  PROVE  Outcome(c)
<1> DEFINE g == graph[c]
<1>0. Fields \subseteq DOMAIN g
  BY DEF Typed, AgentState, Fields
<1>1. CASE Ops!ValidateRequest(c)
  <2>1. PICK allowed, reason :
          Ops!Leaves(c, "validate_request", [g EXCEPT !.allowed = allowed, !.reason = reason])
    BY <1>1 DEF Ops!ValidateRequest
  <2>2. g.at \in Working /\ outbox[c] = <<>>
    BY <1>1 DEF Ops!ValidateRequest, Ops!Enters, Working
  <2>3. DOMAIN [g EXCEPT !.allowed = allowed, !.reason = reason] = DOMAIN g
    OBVIOUS
  <2>4. QED
    BY <1>0, <2>1, <2>2, <2>3, OpsEdges, OpsLeaves
<1>2. CASE Ops!SelectWorkflow(c)
  <2>1. PICK plan : Ops!Leaves(c, "select_workflow", [g EXCEPT !.plan = plan])
    BY <1>2 DEF Ops!SelectWorkflow
  <2>2. g.at \in Working /\ outbox[c] = <<>>
    BY <1>2 DEF Ops!SelectWorkflow, Ops!Enters, Working
  <2>3. DOMAIN [g EXCEPT !.plan = plan] = DOMAIN g
    OBVIOUS
  <2>4. QED
    BY <1>0, <2>1, <2>2, <2>3, OpsEdges, OpsLeaves
<1>3. CASE Ops!AuthorizeWorkflow(c)
  <2>1. PICK plan, allowed, reason :
          Ops!Leaves(c, "authorize_workflow",
                     [g EXCEPT !.plan = plan, !.allowed = allowed, !.reason = reason])
    BY <1>3 DEF Ops!AuthorizeWorkflow
  <2>2. g.at \in Working /\ outbox[c] = <<>>
    BY <1>3 DEF Ops!AuthorizeWorkflow, Ops!Enters, Working
  <2>3. DOMAIN [g EXCEPT !.plan = plan, !.allowed = allowed, !.reason = reason] = DOMAIN g
    OBVIOUS
  <2>4. QED
    BY <1>0, <2>1, <2>2, <2>3, OpsEdges, OpsLeaves
<1>4. CASE Ops!ExecuteWorkflow(c)
  <2>1. g.at \in Working /\ outbox[c] = <<>>
    BY <1>4 DEF Ops!ExecuteWorkflow, Ops!Enters, Working
  <2>2. PICK calls, reads, outputs :
          LET r == [g EXCEPT !.calls = calls, !.reads = reads]
          IN \/ Ops!Raises(c, [r EXCEPT !.outputs = <<>>])
             \/ /\ graph' = [graph EXCEPT ![c] = [r EXCEPT !.outputs = outputs]]
                /\ outbox' = outbox /\ world' = world
    BY <1>4 DEF Ops!ExecuteWorkflow
  <2> DEFINE none == [[g EXCEPT !.calls = calls, !.reads = reads] EXCEPT !.outputs = <<>>]
             one == [[g EXCEPT !.calls = calls, !.reads = reads] EXCEPT !.outputs = outputs]
  <2>3. DOMAIN none = DOMAIN g /\ DOMAIN one = DOMAIN g /\ one.at = g.at
    OBVIOUS
  <2>4. \/ Ops!Raises(c, none)
        \/ graph' = [graph EXCEPT ![c] = one] /\ outbox' = outbox /\ world' = world
    BY <2>2
  <2> HIDE DEF none, one
  <2>5. CASE Ops!Raises(c, none)
    BY <1>0, <2>1, <2>3, <2>5, OpsRaises
  <2>6. CASE graph' = [graph EXCEPT ![c] = one] /\ outbox' = outbox /\ world' = world
    <3>1. outbox' = [outbox EXCEPT ![c] = <<>>]
      BY <2>1, <2>6 DEF Typed
    <3>2. AgentState(one) /\ one.at \in Working
      BY <1>0, <2>1, <2>3 DEF AgentState, Fields
    <3>3. QED
      BY <2>1, <2>6, <3>1, <3>2, NothingYielded, Outcomes
  <2>7. QED
    BY <2>4, <2>5, <2>6
<1>5. CASE Ops!FinishWorkflows(c)
  <2>1. PICK executions : Ops!Leaves(c, "call_n8n_workflow", [g EXCEPT !.executions = executions])
    BY <1>5 DEF Ops!FinishWorkflows
  <2>2. g.at \in Working /\ outbox[c] = <<>>
    BY <1>5 DEF Ops!FinishWorkflows, Ops!Enters, Working
  <2>3. DOMAIN [g EXCEPT !.executions = executions] = DOMAIN g
    OBVIOUS
  <2>4. QED
    BY <1>0, <2>1, <2>2, <2>3, OpsEdges, OpsLeaves
<1>6. CASE Ops!ApplyKpiRules(c)
  <2>1. Ops!Leaves(c, "apply_kpi_rules", g) /\ g.at \in Working /\ outbox[c] = <<>>
    BY <1>6 DEF Ops!ApplyKpiRules, Ops!Enters, Working
  <2>2. QED
    BY <1>0, <2>1, OpsEdges, OpsLeaves
<1>7. CASE Ops!GenerateAnswer(c)
  <2>1. g.at \in Working /\ outbox[c] = <<>>
    BY <1>7 DEF Ops!GenerateAnswer, Ops!Enters, Working
  <2> DEFINE asked == [g EXCEPT !.prompts = @ + 1]
             built == [g EXCEPT !.at = "answered", !.answer = "deterministic",
                                !.steps = Append(@, "generate_answer")]
             told == [asked EXCEPT !.at = "answered", !.answer = "model",
                                   !.steps = Append(@, "generate_answer")]
             ev(answer) == IF c \in Streams
                           THEN StepEvents("generate_answer") \o <<Final(answer)>> ELSE <<>>
  <2>2. DOMAIN asked = DOMAIN g /\ DOMAIN built = DOMAIN g /\ DOMAIN told = DOMAIN g
    OBVIOUS
  <2>3. built.at = "answered" /\ told.at = "answered"
    BY <1>0 DEF Fields
  <2>4. \/ Ops!Raises(c, asked)
        \/ /\ graph' = [graph EXCEPT ![c] = built]
           /\ outbox' = [outbox EXCEPT ![c] = ev("deterministic")] /\ world' = world
        \/ /\ graph' = [graph EXCEPT ![c] = told]
           /\ outbox' = [outbox EXCEPT ![c] = ev("model")] /\ world' = world
    BY <1>7, SameEvents DEF Ops!GenerateAnswer, Ops!Yields
  <2>5. \A answer : Yielded(ev(answer), "answered") /\ (c \notin Streams => ev(answer) = <<>>)
    BY NothingYielded, ThreeYielded DEF Done
  <2> HIDE DEF asked, built, told, ev
  <2>6. AgentState(built) /\ AgentState(told)
    BY <1>0, <2>2, <2>3 DEF AgentState, Fields, Done
  <2>7. CASE Ops!Raises(c, asked)
    BY <1>0, <2>1, <2>2, <2>7, OpsRaises
  <2>8. CASE /\ graph' = [graph EXCEPT ![c] = built]
             /\ outbox' = [outbox EXCEPT ![c] = ev("deterministic")] /\ world' = world
    BY <2>1, <2>3, <2>5, <2>6, <2>8, Outcomes DEF Done
  <2>9. CASE /\ graph' = [graph EXCEPT ![c] = told]
             /\ outbox' = [outbox EXCEPT ![c] = ev("model")] /\ world' = world
    BY <2>1, <2>3, <2>5, <2>6, <2>9, Outcomes DEF Done
  <2>10. QED
    BY <2>4, <2>7, <2>8, <2>9
<1>8. CASE Ops!DenyRequest(c)
  <2> DEFINE r == [g EXCEPT !.at = "denied", !.answer = g.reason,
                            !.steps = Append(@, "deny_request")]
             ev == IF c \in Streams THEN <<Final(g.reason)>> ELSE <<>>
  <2>1. /\ graph' = [graph EXCEPT ![c] = r] /\ outbox' = [outbox EXCEPT ![c] = ev]
        /\ world' = world /\ g.at \in Working /\ outbox[c] = <<>>
    BY <1>8, SameEvents DEF Ops!DenyRequest, Ops!Yields, Ops!Enters, Working, Typed
  <2>2. DOMAIN r = DOMAIN g /\ r.at = "denied"
    BY <1>0 DEF Fields
  <2>3. Yielded(ev, r.at)
    BY <2>2, NothingYielded, OneYielded DEF Final, Types, Ends, Done
  <2>4. c \notin Streams => ev = <<>>
    OBVIOUS
  <2> HIDE DEF r, ev
  <2>5. AgentState(r)
    BY <1>0, <2>2 DEF AgentState, Fields, Done
  <2>6. QED
    BY <2>1, <2>2, <2>3, <2>4, <2>5, Outcomes DEF Done
<1>9. QED
  BY <1>1, <1>2, <1>3, <1>4, <1>5, <1>6, <1>7, <1>8 DEF Ops!Step

\* The custom agent goes on, with a record g and events ev.
Goes(c, g, ev) ==
  /\ graph' = [graph EXCEPT ![c] = g]
  /\ outbox' = [outbox EXCEPT ![c] = IF c \in Streams THEN ev ELSE <<>>]

LEMMA CustomGoes ==
  ASSUME Typed, mode = "ioa_v2_custom", NEW c \in Clients, NEW g, NEW ev,
         Goes(c, g, ev), world' = world, graph[c].at \in Working, outbox[c] = <<>>,
         {"at", "answer"} \subseteq DOMAIN g, g.at \in Working \cup Done, Yielded(ev, g.at)
  PROVE  Outcome(c)
<1> DEFINE out == IF c \in Streams THEN ev ELSE <<>>
<1>1. Yielded(out, g.at) /\ (c \notin Streams => out = <<>>)
  BY NothingYielded
<1>2. graph' = [graph EXCEPT ![c] = g] /\ outbox' = [outbox EXCEPT ![c] = out]
  BY DEF Goes
<1> HIDE DEF out
<1>3. AgentState(g)
  BY DEF AgentState
<1>4. QED
  BY <1>1, <1>2, <1>3, Outcomes

LEMMA CustomRaises ==
  ASSUME Typed, mode = "ioa_v2_custom", NEW c \in Clients, React!Raises(c), world' = world,
         graph[c].at \in Working, outbox[c] = <<>>
  PROVE  Outcome(c)
<1> DEFINE r == [graph[c] EXCEPT !.at = "raised"]
<1>1. graph' = [graph EXCEPT ![c] = r] /\ outbox' = [outbox EXCEPT ![c] = <<>>]
  BY DEF React!Raises, Typed
<1>2. {"at", "answer"} \subseteq DOMAIN r /\ r.at = "raised"
  BY DEF Typed, AgentState
<1> HIDE DEF r
<1>3. AgentState(r)
  BY <1>2 DEF AgentState
<1>4. QED
  BY <1>1, <1>2, <1>3, NothingYielded, Outcomes

LEMMA CustomTurns ==
  ASSUME NEW g, "at" \in DOMAIN g
  PROVE  /\ DOMAIN React!Turn(g) = DOMAIN g /\ DOMAIN React!Collected(g) = DOMAIN g
         /\ React!Turn(g).at \in {"choose_next_step", "generate_final_answer"}
BY DEF React!Turn, React!Collected

LEMMA CustomSteps ==
  ASSUME Typed, mode = "ioa_v2_custom", NEW c \in Clients, React!Step(c)
  PROVE  Outcome(c)
<1> DEFINE g == graph[c]
           asked == [g EXCEPT !.own = @ + 1]
<1>0. {"at", "answer"} \subseteq DOMAIN g /\ DOMAIN asked = DOMAIN g
  BY DEF Typed, AgentState
<1>1. CASE React!ExtractTarget(c)
  <2>1. world' = world /\ g.at \in Working /\ outbox[c] = <<>>
    BY <1>1 DEF React!ExtractTarget, React!Enters, Working
  <2> DEFINE last == memory.last_target
             refers == last # "none" /\ request[c].refers
             target == CASE refers -> last
                         [] ~refers /\ world.target \in {"device", "SYSTEM"} -> world.target
                         [] OTHER -> IF last = "none" THEN "SYSTEM" ELSE last
             own == IF refers THEN 0 ELSE 1
  <2>2. \/ React!Raises(c)
        \/ /\ graph' = [graph EXCEPT ![c].at = "choose_next_step", ![c].target = target,
                                     ![c].own = own]
           /\ UNCHANGED outbox
    BY <1>1, Zenon DEF React!ExtractTarget
  <2> HIDE DEF last, refers, target, own
  <2> DEFINE r == [g EXCEPT !.at = "choose_next_step", !.target = target, !.own = own]
  <2>3. CASE /\ graph' = [graph EXCEPT ![c].at = "choose_next_step", ![c].target = target,
                                       ![c].own = own]
             /\ UNCHANGED outbox
    <3>1. graph' = [graph EXCEPT ![c] = r]
      BY <2>3 DEF Typed
    <3>2. outbox' = [outbox EXCEPT ![c] = <<>>]
      BY <2>1, <2>3 DEF Typed
    <3>3. DOMAIN r = DOMAIN g /\ r.at = "choose_next_step"
      BY <1>0
    <3> HIDE DEF r
    <3>4. AgentState(r) /\ r.at \in Working
      BY <1>0, <3>3 DEF AgentState, Working
    <3>5. QED
      BY <2>1, <3>1, <3>2, <3>4, NothingYielded, Outcomes
  <2>4. QED
    BY <2>1, <2>2, <2>3, CustomRaises
<1>2. CASE React!ChooseNextStep(c)
  <2>1. world' = world /\ g.at \in Working /\ outbox[c] = <<>>
    BY <1>2 DEF React!ChooseNextStep, React!Enters, Working
  <2> DEFINE reply == world.replies[g.turn]
             events == IF asked.observations = <<>> THEN StepEvents("collect_required_evidence")
                       ELSE <<>>
             usage == React!Counted.token_usage
             told == [asked EXCEPT !.at = "answered", !.answer = "answer", !.reported = usage]
             next == React!Turn(React!Collected(asked))
             last == [React!Collected(asked) EXCEPT !.at = "generate_final_answer"]
             acts == [asked EXCEPT !.at = "execute_tool"]
  <2>2. \/ React!Raises(c)
        \/ Goes(c, told, <<Final("answer")>>)
        \/ Goes(c, next, events)
        \/ Goes(c, last, events)
        \/ Goes(c, acts, <<Thought(reply)>>)
    BY <1>2, SameEvents DEF React!ChooseNextStep, React!Answers, React!Yields, Goes
  <2>3. \A at : at # "raised" => Yielded(events, at)
    BY NothingYielded, StepYielded
  <2>4. /\ DOMAIN told = DOMAIN g /\ DOMAIN acts = DOMAIN g /\ told.at = "answered"
        /\ acts.at = "execute_tool"
    BY <1>0
  <2>5. /\ DOMAIN next = DOMAIN g /\ DOMAIN last = DOMAIN g
        /\ next.at \in {"choose_next_step", "generate_final_answer"}
        /\ last.at = "generate_final_answer"
    BY <1>0, CustomTurns
  <2>6. /\ Yielded(<<Final("answer")>>, "answered")
        /\ Yielded(<<Thought(reply)>>, "execute_tool")
    BY OneYielded DEF Final, Thought, Types, Ends, Done
  <2> HIDE DEF asked, told, next, last, acts, events, reply
  <2>7. CASE React!Raises(c)
    BY <2>1, <2>7, CustomRaises
  <2>8. CASE Goes(c, told, <<Final("answer")>>)
    BY <1>0, <2>1, <2>4, <2>6, <2>8, CustomGoes DEF Done
  <2>9. CASE Goes(c, next, events)
    BY <1>0, <2>1, <2>3, <2>5, <2>9, CustomGoes DEF Working
  <2>10. CASE Goes(c, last, events)
    BY <1>0, <2>1, <2>3, <2>5, <2>10, CustomGoes DEF Working
  <2>11. CASE Goes(c, acts, <<Thought(reply)>>)
    BY <1>0, <2>1, <2>4, <2>6, <2>11, CustomGoes DEF Working
  <2>12. QED
    BY <2>2, <2>7, <2>8, <2>9, <2>10, <2>11
<1>3. CASE React!ExecuteTool(c)
  <2>1. world' = world /\ g.at \in Working /\ outbox[c] = <<>>
    BY <1>3 DEF React!ExecuteTool, React!Enters, Working
  <2> DEFINE action == world.replies[g.turn]
             seen == [g EXCEPT !.observations = Append(@, action)]
             bad == [g EXCEPT !.at = "invalid", !.answer = "invalid_tool",
                              !.reported = memory.token_usage]
             enough == [seen EXCEPT !.at = "generate_final_answer"]
             next == React!Turn(seen)
  <2>2. \/ Goes(c, bad, <<Error>>)
        \/ Goes(c, enough, <<Observation(action)>>)
        \/ Goes(c, next, <<Observation(action)>>)
    BY <1>3, SameEvents DEF React!ExecuteTool, React!Yields, Goes, Typed
  <2>3. /\ DOMAIN seen = DOMAIN g /\ DOMAIN bad = DOMAIN g /\ DOMAIN enough = DOMAIN g
        /\ bad.at = "invalid" /\ enough.at = "generate_final_answer"
    BY <1>0
  <2>4. DOMAIN next = DOMAIN g /\ next.at \in {"choose_next_step", "generate_final_answer"}
    BY <1>0, <2>3, CustomTurns
  <2>5. /\ Yielded(<<Error>>, "invalid")
        /\ \A at : at # "raised" => Yielded(<<Observation(action)>>, at)
    BY OneYielded DEF Error, Observation, Types, Ends, Done
  <2> HIDE DEF action, seen, bad, enough, next
  <2>6. CASE Goes(c, bad, <<Error>>)
    BY <1>0, <2>1, <2>3, <2>5, <2>6, CustomGoes DEF Done
  <2>7. CASE Goes(c, enough, <<Observation(action)>>)
    BY <1>0, <2>1, <2>3, <2>5, <2>7, CustomGoes DEF Working
  <2>8. CASE Goes(c, next, <<Observation(action)>>)
    BY <1>0, <2>1, <2>4, <2>5, <2>8, CustomGoes DEF Working
  <2>9. QED
    BY <2>2, <2>6, <2>7, <2>8
<1>4. CASE React!GenerateFinalAnswer(c)
  <2>1. world' = world /\ g.at \in Working /\ outbox[c] = <<>>
    BY <1>4 DEF React!GenerateFinalAnswer, React!Enters, Working
  <2> DEFINE usage == React!Counted.token_usage
             told == [asked EXCEPT !.at = "answered", !.answer = "answer", !.reported = usage]
  <2>2. React!Raises(c) \/ Goes(c, told, <<Final("answer")>>)
    BY <1>4, SameEvents DEF React!GenerateFinalAnswer, React!Answers, React!Yields, Goes
  <2>3. DOMAIN told = DOMAIN g /\ told.at = "answered"
    BY <1>0
  <2>4. Yielded(<<Final("answer")>>, "answered")
    BY OneYielded DEF Final, Types, Ends, Done
  <2> HIDE DEF told
  <2>5. QED
    BY <1>0, <2>1, <2>2, <2>3, <2>4, CustomGoes, CustomRaises DEF Done
<1>5. QED
  BY <1>1, <1>2, <1>3, <1>4 DEF React!Step

LEMMA AgentSteps ==
  ASSUME Typed, NEW c \in Clients, AgentStep(c)
  PROVE  Outcome(c)
BY PolicySteps, OpsSteps, CustomSteps DEF AgentStep
-----------------------------------------------------------------------------
(* What a step leaves alone. *)

Fixed == scenario' = scenario /\ world' = world

Untouched(d) == /\ job'[d] = job[d] /\ wire'[d] = wire[d] /\ logs'[d] = logs[d]
                /\ outbox'[d] = outbox[d] /\ graph'[d] = graph[d]

LEMMA SameScripts ==
  ASSUME Fixed, NEW c
  PROVE  mode' = mode /\ Script(c)' = Script(c)
BY DEF Fixed, Script, StreamScript, JsonScript, mode

LEMMA Frame ==
  ASSUME Fixed, NEW d, Sound(d), Untouched(d)
  PROVE  Sound(d)'
<1>1. mode' = mode /\ Script(d)' = Script(d) /\ world' = world
  BY SameScripts DEF Fixed
<1>2. job'[d] = job[d] /\ wire'[d] = wire[d] /\ logs'[d] = logs[d]
      /\ outbox'[d] = outbox[d] /\ graph'[d] = graph[d]
  BY DEF Untouched
<1>3. AtRest(d)'
  BY <1>2 DEF Sound, AtRest
<1>4. AtWork(d)'
  BY <1>1, <1>2 DEF Sound, AtWork, Serving
<1>5. OnScript(d)'
  BY <1>1, <1>2 DEF Sound, OnScript, Serving, Position, Logged, Sent
<1>6. OnHandler(d)'
  BY <1>1, <1>2 DEF Sound, OnHandler, Unshowable
<1>7. OnWire(d)'
  BY <1>1, <1>2 DEF Sound, OnWire, Serving, Sent
<1>8. EndsOnceFor(d)'
  BY <1>1, <1>2 DEF Sound, EndsOnceFor
<1>9. QED
  BY <1>3, <1>4, <1>5, <1>6, <1>7, <1>8 DEF Sound

LEMMA Others ==
  ASSUME IInv, Fixed, NEW c \in Clients, \A d \in Clients \ {c} : Untouched(d), Sound(c)', Typed'
  PROVE  IInv'
BY Frame DEF IInv
-----------------------------------------------------------------------------
(* The first step, and the steps that admit and refuse. *)

LEMMA InitiallySound ==
  ASSUME Init
  PROVE  IInv
<1>1. scenario \in Scenarios /\ mode \in Modes
  BY ScenariosAssumption DEF Init, mode
<1>2. world = scenario.world
  BY DEF Init
<1>3. \A c \in Clients : graph[c] \in {Ops!initial_state, React!initial_state, Policy!initial_state}
                         /\ (mode = "ioa_v3_langgraph_n8n" => graph[c] = Ops!initial_state)
                         /\ (mode = "ioa_v2_langgraph" => graph[c] = Policy!initial_state)
  BY DEF Init
<1>4. \A c \in Clients : AgentState(graph[c]) /\ graph[c].at = "off"
  <2>1. /\ {"at", "answer", "allowed", "reason", "steps"} \subseteq DOMAIN Ops!initial_state
        /\ Ops!initial_state.at = "off"
    BY DEF Ops!initial_state
  <2>2. /\ {"at", "answer", "allowed", "reason", "steps"} \subseteq DOMAIN Policy!initial_state
        /\ Policy!initial_state.at = "off"
    BY DEF Policy!initial_state
  <2>3. /\ {"at", "answer"} \subseteq DOMAIN React!initial_state
        /\ React!initial_state.at = "off"
    BY DEF React!initial_state
  <2>4. QED
    BY <1>3, <2>1, <2>2, <2>3 DEF AgentState
<1>5. EventSeq(<<>>) /\ EndsLast(<<>>) /\ ~Ending(<<>>) /\ ~HasError(<<>>)
  <2>1. <<>> \in Seq({}) /\ DOMAIN <<>> = {}
    OBVIOUS
  <2>2. QED
    BY <2>1 DEF EventSeq, EndsLast, Ending, HasError
<1>6. Typed
  <2>1. job \in [Clients -> Job]
    BY DEF Init, Job
  <2>2. logs \in [Clients -> Seq({"success", "error"})]
    BY DEF Init
  <2>3. /\ wire = [c \in Clients |-> wire[c]] /\ outbox = [c \in Clients |-> outbox[c]]
        /\ \A c \in Clients : wire[c] = <<>> /\ outbox[c] = <<>>
    BY DEF Init
  <2>4. holder \in Clients \cup {Nobody} /\ DOMAIN graph = Clients
    BY DEF Init
  <2>5. QED
    BY <1>1, <1>2, <1>4, <1>5, <2>1, <2>2, <2>3, <2>4 DEF Typed
<1>7. ASSUME NEW c \in Clients
      PROVE  Sound(c)
  <2>1. /\ job[c].at = "idle" /\ job[c].todo = <<>> /\ job[c].handling = FALSE
        /\ wire[c] = <<>> /\ logs[c] = <<>> /\ outbox[c] = <<>> /\ graph[c].at = "off"
    BY <1>4 DEF Init
  <2>2. Len(wire[c]) = 0 /\ DOMAIN wire[c] = {}
    BY <2>1
  <2>3. QED
    BY <1>5, <2>1, <2>2
       DEF Sound, AtRest, AtWork, OnScript, OnHandler, OnWire, EndsOnceFor, Serving, Sent, Working
<1>8. QED
  BY <1>6, <1>7 DEF IInv

\* Only an agent's item has an agent at work.
LEMMA AgentIsFirst ==
  ASSUME IInv, NEW c \in Clients, job[c].todo # <<>>, Current(c).type # "agent"
  PROVE  graph[c].at \notin Working /\ outbox[c] = <<>>
<1>1. AtWork(c) /\ job[c].todo \in Seq(Items) /\ mode \in Modes
  BY DEF IInv, Sound, Typed, Job
<1>2. SUFFICES ASSUME graph[c].at \in Working \/ outbox[c] # <<>>
               PROVE  FALSE
  OBVIOUS
<1>3. job[c].todo = Script(c) /\ mode \in AgentModes
  BY <1>1, <1>2 DEF AtWork
<1>4. Script(c)[1].type = "agent"
  BY <1>1, <1>3, ScriptsAreShaped DEF ScriptShape
<1>5. QED
  BY <1>1, <1>3, <1>4 DEF Current

LEMMA StartAgentState ==
  ASSUME Typed, NEW c \in Clients, graph[c].at = "off", StartAgent(c)
  PROVE  /\ world' = world /\ outbox' = outbox
         /\ DOMAIN graph' = Clients
         /\ \A d \in Clients \ {c} : graph'[d] = graph[d]
         /\ AgentState(graph'[c])
         /\ mode \in AgentModes => graph'[c].at \in Working
         /\ mode \in Called => graph'[c].at = "off"
<1> DEFINE r(node) == [graph[c] EXCEPT !.at = node]
<1>1. \/ /\ mode = "ioa_v2_langgraph" \/ mode = "ioa_v3_langgraph_n8n"
         /\ graph' = [graph EXCEPT ![c] = r("validate_request")]
         /\ UNCHANGED <<outbox, world>>
      \/ /\ mode = "ioa_v2_custom"
         /\ graph' = [graph EXCEPT ![c] = r("extract_target")]
         /\ UNCHANGED <<outbox, world>>
      \/ /\ mode \in Called
         /\ UNCHANGED <<graph, outbox, world>>
  BY DEF StartAgent, Policy!Start, Ops!Start, React!Start, agentVars, Typed, Modes, Called
<1>2. \A node : DOMAIN r(node) = DOMAIN graph[c]
  OBVIOUS
<1>3. \A node : r(node).at = node
  BY DEF Typed, AgentState
<1> HIDE DEF r
<1>4. \A node \in Working : AgentState(r(node))
  BY <1>2, <1>3 DEF Typed, AgentState
<1>5. {"validate_request", "extract_target"} \subseteq Working /\ AgentState(graph[c])
  BY DEF Working, Typed
<1>6. QED
  BY <1>1, <1>3, <1>4, <1>5 DEF Typed, AgentModes, Called
-----------------------------------------------------------------------------
(* An item of the script or of a handler is done. *)

\* What the next item can be.
LEMMA NextItem ==
  ASSUME IInv, NEW c \in Clients, job[c].at = "serving", job[c].todo # <<>>
  PROVE  LET t == job[c].todo
             e == Current(c)
             n == Position(c) + 1
         IN /\ t \in Seq(Items) /\ Len(t) \in Nat \ {0} /\ DOMAIN t = 1..Len(t)
            /\ Tail(t) \in Seq(Items) /\ Len(Tail(t)) = Len(t) - 1 /\ DOMAIN Tail(t) = 1..Len(t) - 1
            /\ \A i \in DOMAIN Tail(t) : Tail(t)[i] = t[i + 1]
            /\ e = t[1] /\ e \in Items
            /\ (Len(t) = 1 => Tail(t) = <<>>)
            /\ ~job[c].handling =>
                 /\ Position(c) \in Nat /\ n \in DOMAIN Script(c) /\ e = Script(c)[n]
                 /\ Ends(e) => Len(t) = 1
                 /\ (e.type \in Types /\ c \notin Streams) => Len(t) = 1
                 /\ (mode \in AgentModes /\ c \in Streams) => e.type \notin Types
                 /\ e.type = "log" => e.node = "success"
            /\ job[c].handling =>
                 /\ e.type \in {"log", "observation", "error"}
                 /\ e.type = "error" => Len(t) = 1
                 /\ e.type = "observation" =>
                      c \in Streams /\ (mode \in AgentModes => mode = "ioa_v3_langgraph_n8n")
                 /\ e.type = "log" =>
                      /\ e.node = "error" /\ mode \in {"ioa_v2_n8n", "ioa_v2_dify"}
                      /\ logs[c] = <<>> \/ (logs[c] = <<"success">> /\ Unshowable(c))
<1> DEFINE t == job[c].todo
           e == Current(c)
           n == Position(c) + 1
           s == Script(c)
<1>1. t \in Seq(Items) /\ mode \in Modes
  BY DEF IInv, Typed, Job
<1>2. /\ Len(t) \in Nat \ {0} /\ DOMAIN t = 1..Len(t)
      /\ Tail(t) \in Seq(Items) /\ Len(Tail(t)) = Len(t) - 1 /\ DOMAIN Tail(t) = 1..Len(t) - 1
      /\ \A i \in DOMAIN Tail(t) : Tail(t)[i] = t[i + 1]
      /\ e = t[1] /\ e \in Items
  BY <1>1 DEF Current
<1>3. Len(t) = 1 => Tail(t) = <<>>
  BY <1>2, EmptySeq
<1>4. ASSUME ~job[c].handling
      PROVE  /\ Position(c) \in Nat /\ n \in DOMAIN s /\ e = s[n]
             /\ Ends(e) => Len(t) = 1
             /\ (e.type \in Types /\ c \notin Streams) => Len(t) = 1
             /\ (mode \in AgentModes /\ c \in Streams) => e.type \notin Types
             /\ e.type = "log" => e.node = "success"
  <2>1. ScriptShape(s, c)
    BY <1>1, ScriptsAreShaped
  <2>2. s \in Seq(Items) /\ Len(s) \in Nat /\ DOMAIN s = 1..Len(s)
    BY <2>1 DEF ScriptShape
  <2>3. Len(t) <= Len(s) /\ \A i \in DOMAIN t : t[i] = s[i + Position(c)]
    BY <1>4 DEF IInv, Sound, OnScript, Serving
  <2>4. Position(c) = Len(s) - Len(t)
    BY DEF Position
  <2> HIDE DEF t, s, e
  <2>5. Position(c) \in Nat /\ n \in DOMAIN s /\ (n = Len(s) => Len(t) = 1)
    BY <1>2, <2>2, <2>3, <2>4
  <2>6. e = s[n]
    BY <1>2, <2>3, <2>5
  <2>7. QED
    BY <2>1, <2>5, <2>6 DEF ScriptShape, Log
<1>5. ASSUME job[c].handling
      PROVE  /\ e.type \in {"log", "observation", "error"}
             /\ e.type = "error" => Len(t) = 1
             /\ e.type = "observation" =>
                  c \in Streams /\ (mode \in AgentModes => mode = "ioa_v3_langgraph_n8n")
             /\ e.type = "log" =>
                  /\ e.node = "error" /\ mode \in {"ioa_v2_n8n", "ioa_v2_dify"}
                  /\ logs[c] = <<>> \/ (logs[c] = <<"success">> /\ Unshowable(c))
  <2>1. OnHandler(c) /\ 1 \in DOMAIN t
    BY <1>2 DEF IInv, Sound
  <2>2. /\ e.type \in {"log", "observation", "error"}
        /\ e.type = "log" =>
             /\ e = Log("error") /\ mode \in {"ioa_v2_n8n", "ioa_v2_dify"}
             /\ logs[c] = <<>> \/ (logs[c] = <<"success">> /\ Unshowable(c))
        /\ e.type = "observation" =>
             /\ c \in Streams
             /\ mode \in AgentModes => mode = "ioa_v3_langgraph_n8n"
        /\ e.type = "error" => 1 = Len(t)
    BY <1>2, <1>5, <2>1 DEF OnHandler
  <2>3. Log("error").node = "error"
    BY DEF Log
  <2>4. QED
    BY <2>2, <2>3
<1>6. QED
  BY <1>2, <1>3, <1>4, <1>5

\* The next item is done: an event is sent, a row written.
Done1(c) ==
  /\ Advances(c) /\ Fixed /\ graph' = graph /\ outbox' = outbox
  /\ holder' \in Clients \cup {Nobody}
  /\ wire' = IF Current(c).type \in Types
             THEN [wire EXCEPT ![c] = Append(@, Current(c))] ELSE wire
  /\ logs' = IF Current(c).type = "log"
             THEN [logs EXCEPT ![c] = Append(@, Current(c).node)] ELSE logs

LEMMA RowAppended ==
  ASSUME NEW row
  PROVE  Append(<<>>, row) = <<row>> /\ Append(<<"success">>, row) = <<"success", row>>
<1>1. <<>> \in Seq({row, "success"}) /\ <<"success">> \in Seq({row, "success"})
  OBVIOUS
<1>2. Append(<<>>, row) = <<row>>
  BY <1>1
<1>3. Append(<<"success">>, row) = <<"success", row>>
  <2> DEFINE S == {row, "success"}
             a == Append(<<"success">>, row)
             b == <<"success", row>>
  <2>1. a \in Seq(S) /\ b \in Seq(S) /\ Len(a) = 2 /\ Len(b) = 2
        /\ a[1] = b[1] /\ a[2] = b[2]
    BY <1>1
  <2>2. \A i \in 1..Len(a) : i = 1 \/ i = 2
    BY <2>1
  <2> HIDE DEF S, a, b
  <2>3. a = b
    BY <2>1, <2>2, SeqEqual
  <2>4. QED
    BY <2>3 DEF a, b
<1>4. QED
  BY <1>2, <1>3

LEMMA Progress ==
  ASSUME IInv, NEW c \in Clients, job[c].at = "serving", job[c].todo # <<>>,
         graph[c].at \notin Working, outbox[c] = <<>>, Done1(c)
  PROVE  IInv'
<1> DEFINE t == job[c].todo
           u == Tail(t)
           e == Current(c)
           w == wire[c]
           v == wire'[c]
<1>1. Typed /\ Sound(c) /\ mode \in Modes
  BY DEF IInv, Typed
<1>2. /\ t \in Seq(Items) /\ Len(t) \in Nat \ {0} /\ DOMAIN t = 1..Len(t)
      /\ u \in Seq(Items) /\ Len(u) = Len(t) - 1 /\ DOMAIN u = 1..Len(t) - 1
      /\ \A i \in DOMAIN u : u[i] = t[i + 1]
      /\ e = t[1] /\ e \in Items /\ (Len(t) = 1 => u = <<>>)
  BY NextItem
<1>3. ~job[c].handling =>
        /\ Position(c) \in Nat /\ Position(c) + 1 \in DOMAIN Script(c)
        /\ e = Script(c)[Position(c) + 1]
        /\ Ends(e) => u = <<>>
        /\ (e.type \in Types /\ c \notin Streams) => u = <<>>
        /\ (mode \in AgentModes /\ c \in Streams) => e.type \notin Types
        /\ e.type = "log" => e.node = "success"
  BY <1>2, NextItem
<1>4. job[c].handling =>
        /\ e.type \in {"log", "observation", "error"}
        /\ e.type = "error" => u = <<>>
        /\ e.type = "observation" =>
             c \in Streams /\ (mode \in AgentModes => mode = "ioa_v3_langgraph_n8n")
        /\ e.type = "log" =>
             /\ e.node = "error" /\ mode \in {"ioa_v2_n8n", "ioa_v2_dify"}
             /\ logs[c] = <<>> \/ (logs[c] = <<"success">> /\ Unshowable(c))
  BY <1>2, NextItem
<1>5. /\ mode' = mode /\ Script(c)' = Script(c) /\ world' = world /\ scenario' = scenario
      /\ graph' = graph /\ outbox' = outbox
  BY SameScripts DEF Done1, Fixed
<1>6. /\ job'[c].at = "serving" /\ job'[c].handling = job[c].handling /\ job'[c].todo = u
      /\ job' \in [Clients -> Job]
      /\ \A d \in Clients \ {c} : job'[d] = job[d]
  BY <1>1, <1>2 DEF Done1, Advances, Typed, Job
<1>7. /\ wire' = [d \in Clients |-> wire'[d]]
      /\ \A d \in Clients \ {c} : wire'[d] = wire[d]
      /\ v = IF e.type \in Types THEN Append(w, e) ELSE w
  BY <1>1 DEF Done1, Typed
<1>8. /\ EventSeq(v) /\ EventSeq(w) /\ Len(w) \in Nat /\ DOMAIN w = 1..Len(w)
      /\ e.type \notin Types => v = w
      /\ e.type \in Types => /\ Len(v) = Len(w) + 1 /\ DOMAIN v = 1..Len(w) + 1
                             /\ \A i \in DOMAIN w : v[i] = w[i]
                             /\ v[Len(w) + 1] = e
  <2>1. EventSeq(w)
    BY <1>1 DEF Typed
  <2>2. Len(w) \in Nat /\ DOMAIN w = 1..Len(w)
    BY <2>1 DEF EventSeq
  <2>3. QED
    BY <1>7, <2>1, <2>2, EventAppended
<1>9. /\ logs' \in [Clients -> Seq({"success", "error"})]
      /\ \A d \in Clients \ {c} : logs'[d] = logs[d]
      /\ e.type # "log" => logs'[c] = logs[c]
      /\ (e.type = "log" /\ logs[c] = <<>>) => logs'[c] = <<e.node>>
      /\ (e.type = "log" /\ logs[c] = <<"success">>) => logs'[c] = <<"success", e.node>>
  <2>1. e.type = "log" => e.node \in {"success", "error"}
    BY <1>3, <1>4
  <2>2. logs \in [Clients -> Seq({"success", "error"})]
    BY <1>1 DEF Typed
  <2>3. logs' = IF e.type = "log" THEN [logs EXCEPT ![c] = Append(logs[c], e.node)] ELSE logs
    BY DEF Done1
  <2>4. e.type = "log" => Append(logs[c], e.node) \in Seq({"success", "error"})
    BY <2>1, <2>2
  <2> HIDE DEF e
  <2>5. QED
    BY <2>2, <2>3, <2>4, RowAppended
<1>10. Typed'
  BY <1>1, <1>5, <1>6, <1>7, <1>8, <1>9 DEF Typed, Done1, AgentState, mode
<1> HIDE DEF t, u, e, w, v
<1>11. job[c].todo = t /\ t # <<>> /\ wire[c] = w /\ wire'[c] = v /\ w = wire[c]
  BY DEF t, w, v
<1>12. AtRest(c)'
  BY <1>1, <1>5, <1>6 DEF Sound, AtRest
<1>13. AtWork(c)'
  BY <1>1, <1>5 DEF Sound, AtWork, EndsLast, Ending, HasError
<1>14. OnScript(c)'
  <2> DEFINE s == Script(c)
             p == Position(c)
  <2>1. ASSUME ~job[c].handling
        PROVE  /\ Len(u) <= Len(s)
               /\ \A i \in DOMAIN u : u[i] = s[i + (p + 1)]
               /\ Len(s) - Len(u) = p + 1
               /\ logs'[c] = Logged(c, p + 1)
               /\ logs'[c] \in {<<>>, <<"success">>}
    <3>1. Len(t) <= Len(s) /\ (\A i \in DOMAIN t : t[i] = s[i + p]) /\ logs[c] = Logged(c, p)
      BY <1>1, <1>11, <2>1 DEF Sound, OnScript, Serving, t
    <3>2. p = Len(s) - Len(t) /\ Len(s) \in Nat
      <4>1. p = Len(s) - Len(t)
        BY DEF Position, t
      <4>2. s \in Seq(Items)
        BY <1>1, ScriptsAreShaped DEF ScriptShape
      <4>3. QED
        BY <4>1, <4>2
    <3>3. p \in Nat /\ p + 1 \in DOMAIN s /\ e = s[p + 1] /\ (e.type = "log" => e.node = "success")
      BY <1>3, <2>1
    <3>4. /\ e.type = "log" => Logged(c, p) = <<>> /\ Logged(c, p + 1) = <<"success">>
          /\ e.type # "log" => Logged(c, p + 1) = Logged(c, p)
          /\ Logged(c, p) \in {<<>>, <<"success">>}
      BY <1>1, <3>3, LoggedBy
    <3> HIDE DEF s, p
    <3>5. \A i \in DOMAIN u : i \in Nat /\ i + 1 \in DOMAIN t
      BY <1>2
    <3>6. \A i \in DOMAIN u : (i + 1) + p = i + (p + 1)
      BY <3>3, <3>5
    <3>7. \A i \in DOMAIN u : u[i] = s[i + (p + 1)]
      BY <1>2, <3>1, <3>5, <3>6
    <3>8. Len(u) <= Len(s) /\ Len(s) - Len(u) = p + 1
      BY <1>2, <3>1, <3>2
    <3>9. logs'[c] = Logged(c, p + 1)
      BY <1>9, <3>1, <3>3, <3>4
    <3>10. logs'[c] \in {<<>>, <<"success">>}
      BY <3>4, <3>9
    <3>11. QED
      BY <3>7, <3>8, <3>9, <3>10
  <2>2. job'[c].todo = u /\ Position(c)' = Len(s) - Len(u)
    BY <1>5, <1>6 DEF Position
  <2>3. \A n : Logged(c, n)' = IF \E i \in 1..n : s[i].type = "log" THEN <<"success">> ELSE <<>>
    BY <1>5 DEF Logged
  <2>4. Logged(c, Position(c))' = IF \E i \in 1..(Len(s) - Len(u)) : s[i].type = "log" THEN <<"success">> ELSE <<>>
    BY <1>5, <2>2 DEF Logged
  <2>5. QED
    BY <1>5, <1>6, <2>1, <2>2, <2>4 DEF OnScript, Serving, Logged
<1>15. OnHandler(c)'
  <2>1. ASSUME job[c].handling
        PROVE  /\ \A i \in DOMAIN u :
                    /\ u[i].type \in {"observation", "error"}
                    /\ u[i].type = "observation" =>
                         /\ u[i] = Observation("error") /\ c \in Streams
                         /\ mode \in AgentModes => mode = "ioa_v3_langgraph_n8n"
                    /\ u[i].type = "error" => u[i] = Error /\ i = Len(u)
               /\ \/ logs'[c] \in {<<>>, <<"success">>, <<"error">>}
                  \/ logs'[c] = <<"success", "error">> /\ Unshowable(c)
    <3>1. \A i \in DOMAIN u : i \in Nat \ {0} /\ i + 1 \in DOMAIN t /\ u[i] = t[i + 1]
      BY <1>2
    <3>2. OnHandler(c)
      BY <1>1 DEF Sound
    <3>3. \A i \in DOMAIN u : 
                    /\ u[i].type \in {"observation", "error"}
                    /\ u[i].type = "observation" =>
                         /\ u[i] = Observation("error") /\ c \in Streams
                         /\ mode \in AgentModes => mode = "ioa_v3_langgraph_n8n"
                    /\ u[i].type = "error" => u[i] = Error /\ i = Len(u)
      BY <1>2, <1>11, <2>1, <3>1, <3>2 DEF OnHandler
    <3>4. \/ logs[c] \in {<<>>, <<"success">>, <<"error">>}
          \/ logs[c] = <<"success", "error">> /\ Unshowable(c)
      BY <2>1, <3>2 DEF OnHandler
    <3>5. QED
      BY <1>4, <1>9, <2>1, <3>3, <3>4
  <2>2. Unshowable(c)' = Unshowable(c)
    BY <1>5 DEF Unshowable
  <2>3. QED
    BY <1>5, <1>6, <2>1, <2>2 DEF OnHandler
<1>16. \A i \in DOMAIN v : \/ i \in DOMAIN w /\ v[i] = w[i]
                           \/ i = Len(w) + 1 /\ i = Len(v) /\ v[i] = e /\ e.type \in Types
  BY <1>8
<1>17. OnWire(c) /\ job[c].todo # <<>>
  BY <1>1, <1>11 DEF Sound
<1>18. /\ Ends(e) => u = <<>>
       /\ c \notin Streams => w = <<>> /\ (e.type \in Types => u = <<>>)
       /\ (mode \in AgentModes /\ c \in Streams /\ ~job[c].handling) => e.type \notin Types
       /\ mode \in Called => ~Ending(w)
  BY <1>3, <1>4, <1>11, <1>17 DEF OnWire, Ends, Types
<1>19. c \notin Streams => (u # <<>> => v = <<>>) /\ Len(v) <= 1
  <2>1. Len(<<>>) = 0
    OBVIOUS
  <2>2. SUFFICES ASSUME c \notin Streams
                 PROVE  (u # <<>> => v = <<>>) /\ Len(v) <= 1
    OBVIOUS
  <2>3. w = <<>> /\ Len(w) = 0
    BY <1>18, <2>1, <2>2
  <2>4. CASE e.type \in Types
    <3>1. u = <<>> /\ Len(v) = Len(w) + 1
      BY <1>8, <1>18, <2>2, <2>4
    <3>2. QED
      BY <2>3, <3>1
  <2>5. CASE e.type \notin Types
    <3>1. v = w
      BY <1>8, <2>5
    <3>2. QED
      BY <2>3, <3>1
  <2>6. QED
    BY <2>4, <2>5
<1>20. OnWire(c)'
  <2>1. c \notin Streams => (u # <<>> => v = <<>>) /\ Len(v) <= 1
    BY <1>19
  <2>2. mode \in Called => (u # <<>> => ~Ending(v))
    BY <1>16, <1>18 DEF Ending
  <2>3. (mode \in AgentModes /\ c \in Streams /\ Ending(v)) =>
          /\ ~job[c].handling => graph[c].at \in Done
          /\ (job[c].handling /\ u # <<>>) => world.log = "raises"
    <3>1. (Ending(v) /\ u # <<>>) => Ending(w)
      BY <1>16, <1>18 DEF Ending
    <3>2. v # w => e.type \in Types
      BY <1>8
    <3>3. QED
      BY <1>1, <1>6, <1>11, <1>17, <1>18, <3>1, <3>2 DEF OnWire, Serving
  <2>4. (mode \in AgentModes /\ c \in Streams /\ HasError(v) /\ u # <<>>) => mode = "ioa_v2_custom"
    BY <1>11, <1>16, <1>17, <1>18 DEF OnWire, HasError, Ends
  <2>5. (job[c].handling /\ \E i \in DOMAIN v : v[i].type = "final") =>
           mode \in AgentModes /\ world.log = "raises"
    BY <1>4, <1>11, <1>16, <1>17 DEF OnWire, Sent
  <2>6. ~job[c].handling => EndsLast(v)
    <3>1. CASE mode \in Called
      BY <1>16, <1>18, <3>1 DEF EndsLast, Ending
    <3>2. CASE mode \in AgentModes /\ c \in Streams
      BY <1>8, <1>11, <1>17, <1>18, <3>2 DEF OnWire
    <3>3. CASE c \notin Streams
      <4>1. DOMAIN w = {}
        BY <1>18, <3>3
      <4>2. QED
        BY <1>16, <4>1 DEF EndsLast
    <3>4. QED
      BY <1>1, <3>1, <3>2, <3>3 DEF AgentModes
  <2>7. /\ mode' = mode /\ world' = world /\ graph' = graph /\ wire'[c] = v /\ outbox'[c] = <<>>
        /\ job'[c].todo = u /\ job'[c].handling = job[c].handling /\ job'[c].at = "serving"
    BY <1>5, <1>6, <1>11
  <2>8. QED
    BY <2>1, <2>2, <2>3, <2>4, <2>5, <2>6, <2>7 DEF OnWire, Serving, Sent
<1>21. EndsOnceFor(c)'
  <2>1. ASSUME NEW i \in DOMAIN v, NEW j \in DOMAIN v, i < j, Ends(v[i])
        PROVE  /\ mode \in AgentModes /\ world.log = "raises"
               /\ v[i].type # "error" \/ mode = "ioa_v2_custom"
               /\ v[j].type = "observation" => mode = "ioa_v3_langgraph_n8n"
    <3>1. i \in DOMAIN w /\ v[i] = w[i]
      BY <1>8, <2>1
    <3>2. CASE j \in DOMAIN w
      <4>1. v[j] = w[j]
        BY <1>8, <3>2
      <4>2. EndsOnceFor(c)
        BY <1>1 DEF Sound
      <4>3. QED
        BY <1>11, <2>1, <3>1, <3>2, <4>1, <4>2 DEF EndsOnceFor
    <3>3. CASE j \notin DOMAIN w
      <4>1. v[j] = e /\ e.type \in Types
        BY <1>16, <3>3
      <4>2. Ending(w) /\ (w[i].type = "error" => HasError(w))
        BY <2>1, <3>1 DEF Ending, HasError
      <4>3. mode \in AgentModes /\ c \in Streams
        <5>1. DOMAIN <<>> = {}
          OBVIOUS
        <5>2. QED
          BY <1>1, <1>18, <3>1, <4>2, <5>1 DEF AgentModes
      <4>4. job[c].handling
        BY <1>18, <4>1, <4>3
      <4>5. world.log = "raises" /\ (HasError(w) => mode = "ioa_v2_custom")
        BY <1>11, <1>17, <4>2, <4>3, <4>4 DEF OnWire
      <4>6. e.type = "observation" => mode = "ioa_v3_langgraph_n8n"
        BY <1>4, <4>3, <4>4
      <4>7. QED
        BY <3>1, <4>1, <4>2, <4>3, <4>5, <4>6
    <3>4. QED
      BY <3>2, <3>3
  <2>2. c \notin Streams => Len(v) <= 1
    BY <1>19
  <2>3. mode' = mode /\ world' = world /\ wire'[c] = v
    BY <1>5, <1>11
  <2>4. QED
    BY <2>1, <2>2, <2>3 DEF EndsOnceFor
<1>22. Sound(c)'
  BY <1>12, <1>13, <1>14, <1>15, <1>20, <1>21 DEF Sound
<1>23. \A d \in Clients \ {c} : Untouched(d)
  BY <1>5, <1>6, <1>7, <1>9 DEF Untouched
<1>24. QED
  BY <1>10, <1>22, <1>23, Others DEF Done1

\* The next item fails, and its handler is installed.
Raised(c) ==
  /\ Fails(c) /\ Fixed
  /\ UNCHANGED <<graph, outbox, wire, logs>>
  /\ holder' \in Clients \cup {Nobody}
  /\ \/ Current(c).type = "agent" /\ graph[c].at = "raised"
     \/ Current(c).type = "call"
     \/ Current(c).type = "log" /\ world.log = "raises"
     \/ Current(c).type \in Types /\ ~Renders(Current(c))

\* What may have been logged before the failure, and what has ended before it.
LEMMA RaisedItem ==
  ASSUME IInv, NEW c \in Clients, job[c].at = "serving", job[c].todo # <<>>, Raised(c),
         ~job[c].handling
  PROVE  /\ mode \in {"ioa_v2_n8n", "ioa_v2_dify"} =>
              logs[c] = <<>> \/ (logs[c] = <<"success">> /\ Unshowable(c))
         /\ (mode \in AgentModes /\ c \in Streams /\ graph[c].at \in Done) => world.log = "raises"
<1> DEFINE s == Script(c)
           p == Position(c)
           e == Current(c)
<1>1. mode \in Modes /\ Sound(c)
  BY DEF IInv, Typed
<1>2. ScriptShape(s, c)
  BY <1>1, ScriptsAreShaped
<1>3. p \in Nat /\ p + 1 \in DOMAIN s /\ e = s[p + 1]
  BY NextItem
<1>4. logs[c] = Logged(c, p)
  BY <1>1 DEF Sound, OnScript, Serving
<1>5. /\ e.type \in {"log", "call"} => Logged(c, p) = <<>>
      /\ Logged(c, p) \in {<<>>, <<"success">>}
  BY <1>1, <1>3, LoggedBy
<1> HIDE DEF s, p, e
<1>6. /\ e.type = "agent" => mode \in AgentModes
      /\ e.node = "preview" => c \in Streams /\ mode = "ioa_v2_n8n"
      /\ e.node = "first_step" => mode = "ioa_v2_langchain"
      /\ mode \in AgentModes => e.type # "call"
      /\ (mode \in AgentModes /\ c \in Streams) => e.type \notin Types
  BY <1>2, <1>3 DEF ScriptShape
<1>7. \/ e.type = "agent" /\ graph[c].at = "raised"
      \/ e.type = "call"
      \/ e.type = "log" /\ world.log = "raises"
      \/ e.type \in Types /\ ~Renders(e)
  BY DEF Raised, e
<1>8. ~Renders(e) => (e.node = "preview" /\ world.remote = "object") \/ e.node = "first_step"
  BY DEF Renders
<1>9. (mode \in AgentModes /\ c \in Streams /\ graph[c].at \in Done) => world.log = "raises"
  BY <1>6, <1>7 DEF Done
<1>10. ASSUME mode \in {"ioa_v2_n8n", "ioa_v2_dify"}
       PROVE  logs[c] = <<>> \/ (logs[c] = <<"success">> /\ Unshowable(c))
  <2>1. mode \notin AgentModes
    BY <1>10 DEF AgentModes, Called
  <2>2. CASE e.type \in {"log", "call"}
    BY <1>4, <1>5, <2>2
  <2>3. CASE e.type \in Types /\ ~Renders(e)
    <3>1. e.node = "preview" /\ world.remote = "object" /\ c \in Streams /\ mode = "ioa_v2_n8n"
      BY <1>6, <1>8, <1>10, <2>3
    <3>2. QED
      BY <1>4, <1>5, <3>1 DEF Unshowable
  <2>4. QED
    BY <1>6, <1>7, <2>1, <2>2, <2>3
<1>11. QED
  BY <1>9, <1>10

LEMMA Handling ==
  ASSUME IInv, NEW c \in Clients, job[c].at = "serving", job[c].todo # <<>>,
         graph[c].at \notin Working, outbox[c] = <<>>, Raised(c)
  PROVE  IInv'
<1> DEFINE h == job'[c].todo
           w == wire[c]
<1>1. Typed /\ Sound(c) /\ mode \in Modes
  BY DEF IInv, Typed
<1>2. job[c].handling \in BOOLEAN
  BY <1>1 DEF Typed, Job
<1>3. HandlerShape(h, c) /\ (job[c].handling => h = <<Error>>)
  <2>1. h = IF job[c].handling THEN <<Error>> ELSE Handler(c)
    BY <1>1 DEF Raised, Fails, Typed, Job
  <2>2. HandlerShape(<<Error>>, c) /\ HandlerShape(Handler(c), c)
    BY <1>1, ErrorShape, HandlersAreShaped
  <2>3. QED
    BY <2>1, <2>2
<1>4. h \in Seq(Items) /\ h # <<>>
  BY <1>3 DEF HandlerShape
<1>5. /\ job'[c].at = "serving" /\ job'[c].handling = TRUE
      /\ \A d \in Clients \ {c} : job'[d] = job[d]
  BY <1>1 DEF Raised, Fails, Typed, Job
<1>6. job' \in [Clients -> Job]
  <2> DEFINE todo == IF job[c].handling THEN <<Error>> ELSE Handler(c)
  <2>1. job' = [job EXCEPT ![c].todo = todo, ![c].handling = TRUE]
    BY DEF Raised, Fails
  <2>2. h = todo
    BY <1>1, <2>1 DEF Typed, Job
  <2> HIDE DEF todo
  <2>3. todo \in Seq(Items)
    BY <1>4, <2>2
  <2>4. QED
    BY <1>1, <2>1, <2>3 DEF Typed, Job
<1>7. /\ mode' = mode /\ world' = world /\ scenario' = scenario
      /\ graph' = graph /\ outbox' = outbox /\ wire' = wire /\ logs' = logs
  BY SameScripts DEF Raised, Fixed
<1>8. Typed'
  BY <1>1, <1>6, <1>7 DEF Typed, Raised, AgentState, mode
<1> HIDE DEF h
<1>9. job'[c].todo = h
  BY DEF h
<1>10. AtRest(c)'
  BY <1>1, <1>5, <1>7 DEF Sound, AtRest
<1>11. AtWork(c)'
  BY <1>1, <1>7 DEF Sound, AtWork, EndsLast, Ending, HasError
<1>12. OnScript(c)'
  BY <1>5 DEF OnScript, Serving
<1>13. logs[c] \in {<<>>, <<"success">>, <<"error">>} \/ (logs[c] = <<"success", "error">> /\ Unshowable(c))
  BY <1>1, <1>2 DEF Sound, OnScript, OnHandler
<1>14. \A i \in DOMAIN h : h[i].type = "log" =>
          logs[c] = <<>> \/ (logs[c] = <<"success">> /\ Unshowable(c))
  <2>1. CASE job[c].handling
    <3>1. DOMAIN <<Error>> = {1} /\ <<Error>>[1].type = "error"
      BY DEF Error
    <3>2. QED
      BY <1>3, <2>1, <3>1
  <2>2. CASE ~job[c].handling
    BY <1>3, <2>2, RaisedItem DEF HandlerShape
  <2>3. QED
    BY <2>1, <2>2
<1>15. OnHandler(c)'
  <2>1. Unshowable(c)' = Unshowable(c)
    BY <1>7 DEF Unshowable
  <2>2. QED
    BY <1>3, <1>7, <1>9, <1>13, <1>14, <2>1 DEF OnHandler, HandlerShape
<1>16. OnWire(c)
  BY <1>1 DEF Sound
<1>17. c \notin Streams => w = <<>> /\ Len(w) <= 1
  BY <1>16 DEF OnWire
<1>18. mode \in Called => ~Ending(w)
  BY <1>16 DEF OnWire
<1>19. (mode \in AgentModes /\ c \in Streams /\ Ending(w)) => world.log = "raises"
  BY <1>1, <1>16, RaisedItem DEF OnWire, Serving
<1>20. (mode \in AgentModes /\ c \in Streams /\ HasError(w)) => mode = "ioa_v2_custom"
  BY <1>16 DEF OnWire
<1>21. Sent(c, "final") => mode \in AgentModes /\ c \in Streams /\ Ending(w)
  <2>1. DOMAIN <<>> = {}
    OBVIOUS
  <2>2. QED
    BY <1>1, <1>17, <1>18, <2>1 DEF Sent, Ending, Ends, AgentModes
<1>22. OnWire(c)'
  <2>1. Sent(c, "final")' <=> Sent(c, "final")
    BY <1>7 DEF Sent
  <2>2. wire'[c] = w /\ ~Serving(c)'
    BY <1>5, <1>7 DEF Serving
  <2> HIDE DEF w
  <2>3. QED
    BY <1>5, <1>7, <1>17, <1>18, <1>19, <1>20, <1>21, <2>1, <2>2 DEF OnWire
<1>23. EndsOnceFor(c)'
  BY <1>1, <1>7 DEF Sound, EndsOnceFor
<1>24. Sound(c)'
  BY <1>10, <1>11, <1>12, <1>15, <1>22, <1>23 DEF Sound
<1>25. \A d \in Clients \ {c} : Untouched(d)
  BY <1>5, <1>7 DEF Untouched
<1>26. QED
  BY <1>8, <1>24, <1>25, Others DEF Raised
-----------------------------------------------------------------------------
(* The actions. *)

LEMMA NoEvents ==
  /\ EventSeq(<<>>) /\ EndsLast(<<>>) /\ ~Ending(<<>>) /\ ~HasError(<<>>)
  /\ Len(<<>>) = 0 /\ DOMAIN <<>> = {}
<1>1. <<>> \in Seq({}) /\ DOMAIN <<>> = {} /\ Len(<<>>) = 0
  OBVIOUS
<1>2. QED
  BY <1>1 DEF EventSeq, EndsLast, Ending, HasError

LEMMA Admitted ==
  ASSUME IInv, NEW c \in Clients, Admit(c)
  PROVE  IInv'
<1>1. Typed /\ Sound(c) /\ mode \in Modes /\ job[c].at = "idle"
  BY DEF IInv, Typed, Admit
<1>2. graph[c].at = "off" /\ wire[c] = <<>> /\ logs[c] = <<>> /\ ~job[c].handling /\ outbox[c] = <<>>
  BY <1>1 DEF Sound, AtRest
<1>3. /\ world' = world /\ outbox' = outbox
      /\ DOMAIN graph' = Clients
      /\ \A d \in Clients \ {c} : graph'[d] = graph[d]
      /\ AgentState(graph'[c])
      /\ mode \in Called => graph'[c].at = "off"
  BY <1>1, <1>2, StartAgentState DEF Admit
<1>4. scenario' = scenario /\ wire' = wire /\ logs' = logs /\ holder' = c
  BY DEF Admit
<1>5. mode' = mode /\ Script(c)' = Script(c) /\ Fixed
  BY <1>3, <1>4, SameScripts DEF Fixed
<1>6. ScriptShape(Script(c), c)
  BY <1>1, ScriptsAreShaped
<1>7. Script(c) \in Seq(Items) /\ Len(Script(c)) \in Nat /\ DOMAIN Script(c) = 1..Len(Script(c))
  BY <1>6 DEF ScriptShape
<1>8. job' = [job EXCEPT ![c].at = "serving", ![c].todo = Script(c)]
  BY DEF Admit, Script
<1>9. /\ job'[c].at = "serving" /\ job'[c].todo = Script(c) /\ ~job'[c].handling
      /\ \A d \in Clients \ {c} : job'[d] = job[d]
  BY <1>1, <1>2, <1>8 DEF Typed, Job
<1>10. job' \in [Clients -> Job]
  <2> DEFINE s == Script(c)
  <2>1. job \in [Clients -> Job] /\ s \in Seq(Items)
    BY <1>1, <1>7 DEF Typed
  <2>2. job' = [job EXCEPT ![c].at = "serving", ![c].todo = s]
    BY <1>8
  <2> HIDE DEF s
  <2>3. QED
    BY <2>1, <2>2 DEF Job
<1>11. Typed'
  <2>1. \A d \in Clients : AgentState(graph'[d])
    BY <1>1, <1>3 DEF Typed
  <2>2. \A d \in Clients : AgentState(graph[d])' <=> AgentState(graph'[d])
    BY <1>5 DEF AgentState
  <2>3. QED
    BY <1>1, <1>3, <1>4, <1>5, <1>10, <2>1, <2>2 DEF Typed, mode
<1>12. /\ wire'[c] = <<>> /\ logs'[c] = <<>> /\ outbox'[c] = <<>>
  BY <1>2, <1>3, <1>4
<1>13. AtRest(c)'
  BY <1>9, <1>12 DEF AtRest
<1>14. AtWork(c)'
  <2>1. Serving(c)' /\ (graph'[c].at \in Working => mode \in AgentModes)
    BY <1>1, <1>3, <1>9 DEF Serving, Working, AgentModes
  <2>2. QED
    BY <1>5, <1>9, <1>12, <2>1, NoEvents DEF AtWork
<1>15. OnScript(c)'
  <2>1. Position(c)' = 0
    BY <1>5, <1>7, <1>9 DEF Position
  <2>2. Logged(c, Position(c))' = <<>>
    BY <2>1 DEF Logged
  <2>3. \A i \in DOMAIN Script(c) : Script(c)[i + 0] = Script(c)[i]
    BY <1>7
  <2>4. /\ Len(job'[c].todo) <= Len(Script(c))
        /\ \A i \in DOMAIN job'[c].todo : job'[c].todo[i] = Script(c)[i + 0]
    BY <1>7, <1>9, <2>3
  <2>5. QED
    BY <1>5, <1>9, <1>12, <2>1, <2>2, <2>4 DEF OnScript, Serving
<1>16. OnHandler(c)'
  BY <1>9 DEF OnHandler
<1>17. OnWire(c)'
  BY <1>9, <1>12, NoEvents DEF OnWire
<1>18. EndsOnceFor(c)'
  BY <1>12, NoEvents DEF EndsOnceFor
<1>19. Sound(c)'
  BY <1>13, <1>14, <1>15, <1>16, <1>17, <1>18 DEF Sound
<1>20. \A d \in Clients \ {c} : Untouched(d)
  BY <1>3, <1>4, <1>9 DEF Untouched
<1>21. QED
  BY <1>5, <1>11, <1>19, <1>20, Others

LEMMA Refused ==
  ASSUME IInv, NEW c \in Clients, Refuse(c)
  PROVE  IInv'
<1>1. Typed /\ Sound(c) /\ mode \in Modes /\ job[c].at = "idle"
  BY DEF IInv, Typed, Refuse
<1>2. /\ graph[c].at = "off" /\ wire[c] = <<>> /\ logs[c] = <<>> /\ ~job[c].handling
      /\ outbox[c] = <<>> /\ job[c].todo = <<>>
  BY <1>1 DEF Sound, AtRest
<1>3. /\ scenario' = scenario /\ logs' = logs /\ holder' = holder
      /\ graph' = graph /\ outbox' = outbox /\ world' = world
  BY DEF Refuse, agentVars
<1>4. mode' = mode /\ Script(c)' = Script(c) /\ Fixed
  BY <1>3, SameScripts DEF Fixed
<1>5. /\ job'[c].at = "ended" /\ job'[c].todo = <<>> /\ ~job'[c].handling
      /\ job' \in [Clients -> Job]
      /\ \A d \in Clients \ {c} : job'[d] = job[d]
  BY <1>1, <1>2 DEF Refuse, Typed, Job
<1>6. wire'[c] = <<Error>> /\ \A d \in Clients \ {c} : wire'[d] = wire[d]
  BY <1>1 DEF Refuse, Typed
<1>7. /\ EventSeq(<<Error>>) /\ Len(<<Error>>) = 1 /\ DOMAIN <<Error>> = {1}
      /\ EndsLast(<<Error>>) /\ <<Error>>[1].type = "error"
  <2>1. /\ Len(<<Error>>) = 1 /\ DOMAIN <<Error>> = {1} /\ <<Error>> \in Seq({Error})
        /\ <<Error>>[1].type = "error"
    BY DEF Error
  <2>2. QED
    BY <2>1 DEF EventSeq, EndsLast, Types
<1>8. Typed'
  <2>1. wire' = [d \in Clients |-> wire'[d]]
    BY <1>1 DEF Refuse, Typed
  <2>2. QED
    BY <1>1, <1>3, <1>4, <1>5, <1>6, <1>7, <2>1 DEF Typed, AgentState, mode
<1>9. AtRest(c)'
  BY <1>2, <1>3, <1>5 DEF AtRest
<1>10. AtWork(c)'
  BY <1>2, <1>3, NoEvents DEF AtWork, Working
<1>11. OnScript(c)'
  BY <1>2, <1>3, <1>5, <1>6, <1>7 DEF OnScript, Serving, Sent
<1>12. OnHandler(c)'
  BY <1>5 DEF OnHandler
<1>13. OnWire(c)'
  BY <1>5, <1>6, <1>7 DEF OnWire, Serving, Sent
<1>14. EndsOnceFor(c)'
  BY <1>6, <1>7 DEF EndsOnceFor
<1>15. Sound(c)'
  BY <1>9, <1>10, <1>11, <1>12, <1>13, <1>14 DEF Sound
<1>16. \A d \in Clients \ {c} : Untouched(d)
  BY <1>3, <1>5, <1>6 DEF Untouched
<1>17. QED
  BY <1>4, <1>8, <1>15, <1>16, Others

LEMMA AgentRuns ==
  ASSUME IInv, NEW c \in Clients, RunAgent(c)
  PROVE  IInv'
<1>1. Typed /\ Sound(c) /\ mode \in Modes
  BY DEF IInv, Typed
<1>2. Outcome(c)
  BY <1>1, AgentSteps DEF RunAgent
<1>3. /\ scenario' = scenario /\ job' = job /\ wire' = wire /\ logs' = logs /\ holder' = c
      /\ world' = world
  BY <1>2 DEF RunAgent, Outcome
<1>4. mode' = mode /\ Script(c)' = Script(c) /\ Fixed
  BY <1>3, SameScripts DEF Fixed
<1>5. graph[c].at \in Working /\ graph[c].at \notin Done
  BY <1>2 DEF Outcome, Working, Done
<1>6. Serving(c) /\ job[c].todo = Script(c) /\ mode \in AgentModes
  BY <1>1, <1>5 DEF Sound, AtWork
<1>7. /\ EventSeq(outbox'[c]) /\ EndsLast(outbox'[c])
      /\ Ending(outbox'[c]) => graph'[c].at \in Done
      /\ HasError(outbox'[c]) => mode = "ioa_v2_custom"
      /\ outbox'[c] # <<>> => graph'[c].at # "raised" /\ c \in Streams
      /\ graph'[c].at \in Working \cup Done \cup {"raised"}
  BY <1>2 DEF Outcome, Yielded
<1>8. Typed'
  <2>1. \A d \in Clients : AgentState(graph'[d]) /\ EventSeq(outbox'[d])
    BY <1>1, <1>2, <1>7 DEF Outcome, Typed
  <2>2. \A d \in Clients : AgentState(graph[d])' <=> AgentState(graph'[d])
    BY <1>4 DEF AgentState
  <2>3. outbox' = [d \in Clients |-> outbox'[d]] /\ DOMAIN graph' = Clients
    BY <1>2 DEF Outcome
  <2>4. QED
    BY <1>1, <1>3, <1>4, <2>1, <2>2, <2>3 DEF Typed, mode
<1>9. AtRest(c)'
  BY <1>3, <1>6, <1>7 DEF AtRest, Serving
<1>10. AtWork(c)'
  BY <1>3, <1>4, <1>6, <1>7 DEF AtWork, Serving
<1>11. OnScript(c)'
  BY <1>1, <1>3, <1>4 DEF Sound, OnScript, Serving, Position, Logged, Sent
<1>12. OnHandler(c)'
  BY <1>3, <1>6 DEF OnHandler, Serving
<1>13. OnWire(c)'
  BY <1>1, <1>3, <1>4, <1>5, <1>6 DEF Sound, OnWire, Serving, Sent
<1>14. EndsOnceFor(c)'
  BY <1>1, <1>3, <1>4 DEF Sound, EndsOnceFor
<1>15. Sound(c)'
  BY <1>9, <1>10, <1>11, <1>12, <1>13, <1>14 DEF Sound
<1>16. \A d \in Clients \ {c} : Untouched(d)
  BY <1>2, <1>3 DEF Untouched, Outcome
<1>17. QED
  BY <1>4, <1>8, <1>15, <1>16, Others

LEMMA AgentReturned ==
  ASSUME IInv, NEW c \in Clients, AgentReturns(c)
  PROVE  IInv'
<1>1. /\ job[c].at = "serving" /\ job[c].todo # <<>> /\ Current(c).type = "agent"
      /\ outbox[c] = <<>> /\ holder' = c /\ UNCHANGED <<scenario, wire, logs, graph, outbox, world>>
  BY DEF AgentReturns, Item, Runs, agentVars
<1>2. Current(c).type \notin Types /\ Current(c).type # "log"
  BY <1>1 DEF Types
<1>3. CASE graph[c].at \in {"answered", "denied", "failed", "invalid"} /\ Advances(c)
  <2>1. graph[c].at \notin Working
    BY <1>3 DEF Working
  <2>2. Done1(c)
    BY <1>1, <1>2, <1>3 DEF Done1, Fixed
  <2>3. QED
    BY <1>1, <2>1, <2>2, Progress
<1>4. CASE graph[c].at = "raised" /\ Fails(c)
  <2>1. graph[c].at \notin Working
    BY <1>4 DEF Working
  <2>2. Raised(c)
    BY <1>1, <1>4 DEF Raised, Fixed
  <2>3. QED
    BY <1>1, <2>1, <2>2, Handling
<1>5. QED
  BY <1>3, <1>4 DEF AgentReturns

LEMMA Sending ==
  ASSUME IInv, NEW c \in Clients, Send(c)
  PROVE  IInv'
<1>1. /\ job[c].at = "serving" /\ job[c].todo # <<>> /\ Current(c).type \in Types
      /\ UNCHANGED <<scenario, logs, graph, outbox, world>>
  BY DEF Send, Runs, agentVars
<1>2. Current(c).type # "log" /\ Current(c).type # "agent"
  BY <1>1 DEF Types
<1>3. graph[c].at \notin Working /\ outbox[c] = <<>>
  BY <1>1, <1>2, AgentIsFirst
<1>4. CASE Renders(Current(c))
  <2>1. /\ Advances(c) /\ holder' = Nobody
        /\ wire' = [wire EXCEPT ![c] = Append(@, Current(c))]
    BY <1>4 DEF Send, Sends
  <2>2. Done1(c)
    BY <1>1, <1>2, <2>1 DEF Done1, Fixed
  <2>3. QED
    BY <1>1, <1>3, <2>2, Progress
<1>5. CASE ~Renders(Current(c))
  <2>1. Fails(c) /\ holder' = c /\ wire' = wire
    BY <1>5 DEF Send
  <2>2. Raised(c)
    BY <1>1, <1>5, <2>1 DEF Raised, Fixed
  <2>3. QED
    BY <1>1, <1>3, <2>2, Handling
<1>6. QED
  BY <1>4, <1>5

LEMMA RuntimeCalled ==
  ASSUME IInv, NEW c \in Clients, CallRuntime(c)
  PROVE  IInv'
<1>1. /\ job[c].at = "serving" /\ job[c].todo # <<>> /\ Current(c).type = "call" /\ holder' = c
      /\ UNCHANGED <<scenario, wire, logs, graph, outbox, world>>
  BY DEF CallRuntime, Item, Runs, agentVars
<1>2. Current(c).type \notin Types /\ Current(c).type # "log" /\ Current(c).type # "agent"
  BY <1>1 DEF Types
<1>3. graph[c].at \notin Working /\ outbox[c] = <<>>
  BY <1>1, <1>2, AgentIsFirst
<1>4. CASE Advances(c)
  <2>1. Done1(c)
    BY <1>1, <1>2, <1>4 DEF Done1, Fixed
  <2>2. QED
    BY <1>1, <1>3, <2>1, Progress
<1>5. CASE Fails(c)
  <2>1. Raised(c)
    BY <1>1, <1>5 DEF Raised, Fixed
  <2>2. QED
    BY <1>1, <1>3, <2>1, Handling
<1>6. QED
  BY <1>4, <1>5 DEF CallRuntime

LEMMA BenchmarkLogged ==
  ASSUME IInv, NEW c \in Clients, LogBenchmark(c)
  PROVE  IInv'
<1>1. /\ job[c].at = "serving" /\ job[c].todo # <<>> /\ Current(c).type = "log" /\ holder' = c
      /\ UNCHANGED <<scenario, wire, graph, outbox, world>>
  BY DEF LogBenchmark, Item, Runs, agentVars
<1>2. Current(c).type \notin Types /\ Current(c).type # "agent"
  BY <1>1 DEF Types
<1>3. graph[c].at \notin Working /\ outbox[c] = <<>>
  BY <1>1, <1>2, AgentIsFirst
<1>4. CASE Advances(c) /\ logs' = [logs EXCEPT ![c] = Append(@, Current(c).node)]
  <2>1. Done1(c)
    BY <1>1, <1>2, <1>4 DEF Done1, Fixed
  <2>2. QED
    BY <1>1, <1>3, <2>1, Progress
<1>5. CASE world.log = "raises" /\ Fails(c) /\ UNCHANGED logs
  <2>1. Raised(c)
    BY <1>1, <1>5 DEF Raised, Fixed
  <2>2. QED
    BY <1>1, <1>3, <2>1, Handling
<1>6. QED
  BY <1>4, <1>5 DEF LogBenchmark

LEMMA Relaying ==
  ASSUME IInv, NEW c \in Clients, Relay(c)
  PROVE  IInv'
<1> DEFINE o == outbox[c]
           w == wire[c]
           e == Head(o)
           v == wire'[c]
<1>1. Typed /\ Sound(c) /\ mode \in Modes /\ o # <<>>
  BY DEF IInv, Typed, Relay
<1>2. /\ Serving(c) /\ job[c].todo = Script(c) /\ mode \in AgentModes /\ c \in Streams
      /\ graph[c].at \in Working \cup Done
      /\ EndsLast(o) /\ (Ending(o) => graph[c].at \in Done)
      /\ HasError(o) => mode = "ioa_v2_custom"
  BY <1>1 DEF Sound, AtWork, AtRest
<1>3. /\ scenario' = scenario /\ job' = job /\ logs' = logs /\ holder' = Nobody
      /\ graph' = graph /\ world' = world
      /\ outbox' = [outbox EXCEPT ![c] = Tail(o)] /\ wire' = [wire EXCEPT ![c] = Append(w, e)]
  BY DEF Relay, Sends
<1>4. mode' = mode /\ Script(c)' = Script(c) /\ Fixed
  BY <1>3, SameScripts DEF Fixed
<1>5. EventSeq(o) /\ EventSeq(w)
  BY <1>1 DEF Typed
<1>6. /\ EventSeq(Tail(o)) /\ Len(o) \in Nat \ {0} /\ Len(Tail(o)) = Len(o) - 1
      /\ DOMAIN o = 1..Len(o) /\ DOMAIN Tail(o) = 1..Len(o) - 1
      /\ \A i \in DOMAIN Tail(o) : Tail(o)[i] = o[i + 1]
      /\ e = o[1] /\ e.type \in Types
  BY <1>1, <1>5, EventTaken
<1>7. outbox'[c] = Tail(o) /\ v = Append(w, e)
      /\ \A d \in Clients \ {c} : outbox'[d] = outbox[d] /\ wire'[d] = wire[d]
  BY <1>1, <1>3 DEF Typed
<1>8. /\ EventSeq(v) /\ Len(w) \in Nat
      /\ DOMAIN w = 1..Len(w) /\ DOMAIN v = 1..Len(w) + 1
      /\ Len(v) = Len(w) + 1
      /\ \A i \in DOMAIN w : v[i] = w[i]
      /\ v[Len(w) + 1] = e
  <2> HIDE DEF o, w, e, v
  <2>1. e.type \in Types
    BY <1>6
  <2>2. QED
    BY <1>5, <1>7, <2>1, EventAppended
<1>9. Typed'
  <2>1. /\ outbox' = [d \in Clients |-> outbox'[d]] /\ wire' = [d \in Clients |-> wire'[d]]
    BY <1>1, <1>3 DEF Typed
  <2>2. \A d \in Clients : EventSeq(outbox'[d]) /\ EventSeq(wire'[d])
    BY <1>1, <1>6, <1>7, <1>8 DEF Typed
  <2>3. QED
    BY <1>1, <1>3, <1>4, <2>1, <2>2 DEF Typed, AgentState, mode
<1>10. ~Ending(w)
  BY <1>1, <1>2 DEF Sound, OnWire
<1>11. Tail(o) # <<>> => Len(Tail(o)) # 0
  <2>1. PICK S : Tail(o) \in Seq(S)
    BY <1>6 DEF EventSeq
  <2>2. QED
    BY <2>1, EmptySeq

<1>12. 1 \in DOMAIN o
  BY <1>6
<1>13. job'[c] = job[c] /\ graph'[c] = graph[c] /\ logs'[c] = logs[c] /\ wire'[c] = v
  BY <1>3
<1> DEFINE u == Tail(o)
<1> HIDE DEF o, w, e, v, u
<1>14. EndsLast(u) /\ (Ending(u) => Ending(o)) /\ (HasError(u) => HasError(o))
  <2>0. Len(o) \in Nat \ {0} /\ DOMAIN o = 1..Len(o) /\ DOMAIN u = 1..Len(o) - 1
        /\ \A i \in DOMAIN u : u[i] = o[i + 1]
    BY <1>6 DEF u
  <2>1. \A i \in DOMAIN u : i + 1 \in DOMAIN o /\ u[i] = o[i + 1] /\ i \in Nat
    BY <2>0
  <2>2. \A i \in DOMAIN u : i + 1 = Len(o) => i = Len(u)
    BY <1>6, <2>1 DEF u
  <2>3. EndsLast(u)
    BY <1>2, <2>1, <2>2 DEF EndsLast
  <2>4. QED
    BY <2>1, <2>3 DEF Ending, HasError
<1>15. Ends(e) => u = <<>> /\ Ending(o)
  <2>1. Ends(e) => Len(o) = 1 /\ Ending(o)
    BY <1>2, <1>6, <1>12 DEF EndsLast, Ending
  <2>2. Len(o) = 1 => u = <<>>
    BY <1>6, <1>11 DEF u
  <2>3. QED
    BY <2>1, <2>2
<1>16. e.type = "error" => HasError(o)
  BY <1>6, <1>12 DEF HasError
<1>17. outbox'[c] = u /\ (u # <<>> => o # <<>>) /\ outbox[c] = o
  BY <1>1, <1>7 DEF u, o
<1>18. \A i \in DOMAIN v : \/ i \in DOMAIN w /\ v[i] = w[i]
                           \/ i = Len(w) + 1 /\ i = Len(v) /\ v[i] = e
  BY <1>8
<1>19. AtRest(c)'
  BY <1>2, <1>13 DEF AtRest, Serving
<1>20. AtWork(c)'
  BY <1>2, <1>4, <1>13, <1>14, <1>17 DEF AtWork, Serving
<1>21. OnScript(c)'
  BY <1>1, <1>2, <1>4, <1>13 DEF Sound, OnScript, Serving, Position, Logged, Sent
<1>22. OnHandler(c)'
  BY <1>2, <1>13 DEF OnHandler, Serving
<1>23. wire[c] = w
  BY DEF w
<1>24. OnWire(c)'
  <2>1. Ending(v) => u = <<>> /\ graph[c].at \in Done
    BY <1>2, <1>10, <1>15, <1>18 DEF Ending
  <2>2. HasError(v) => mode = "ioa_v2_custom"
    <3>1. HasError(w) => Ending(w)
      BY DEF HasError, Ending, Ends
    <3>2. QED
      BY <1>2, <1>10, <1>16, <1>18, <3>1 DEF HasError
  <2>3. EndsLast(v)
    BY <1>10, <1>18 DEF EndsLast, Ending
  <2>4. mode \notin Called
    BY <1>2 DEF AgentModes
  <2>5. QED
    BY <1>2, <1>4, <1>13, <1>17, <2>1, <2>2, <2>3, <2>4 DEF OnWire, Serving
<1>25. EndsOnceFor(c)'
  <2>1. ASSUME NEW i \in DOMAIN v, NEW j \in DOMAIN v, i < j, Ends(v[i])
        PROVE  FALSE
    <3>1. i \in DOMAIN w
      BY <1>8, <2>1
    <3>2. QED
      BY <1>8, <1>10, <2>1, <3>1 DEF Ending
  <2>2. QED
    BY <1>2, <1>13, <2>1 DEF EndsOnceFor
<1>26. Sound(c)'
  BY <1>19, <1>20, <1>21, <1>22, <1>24, <1>25 DEF Sound
<1>27. \A d \in Clients \ {c} : Untouched(d)
  BY <1>3, <1>7 DEF Untouched
<1>28. QED
  BY <1>4, <1>9, <1>26, <1>27, Others

LEMMA Finished ==
  ASSUME IInv, NEW c \in Clients, Finish(c)
  PROVE  IInv'
<1>1. Typed /\ Sound(c) /\ mode \in Modes /\ job[c].at = "serving" /\ job[c].todo = <<>>
  BY DEF IInv, Typed, Finish, Runs
<1>2. /\ scenario' = scenario /\ wire' = wire /\ logs' = logs /\ holder' = Nobody
      /\ graph' = graph /\ outbox' = outbox /\ world' = world
  BY DEF Finish, agentVars
<1>3. mode' = mode /\ Script(c)' = Script(c) /\ Fixed
  BY <1>2, SameScripts DEF Fixed
<1>4. /\ job'[c].at = "ended" /\ job'[c].todo = <<>> /\ job'[c].handling = job[c].handling
      /\ job' \in [Clients -> Job]
      /\ \A d \in Clients \ {c} : job'[d] = job[d]
  BY <1>1 DEF Finish, Typed, Job
<1>5. Typed'
  BY <1>1, <1>2, <1>3, <1>4 DEF Typed, AgentState, mode
<1>6. ScriptShape(Script(c), c)
  BY <1>1, ScriptsAreShaped
<1>7. Script(c) # <<>> /\ Len(Script(c)) \in Nat
  BY <1>6 DEF ScriptShape
<1>8. graph[c].at \notin Working /\ outbox[c] = <<>>
  BY <1>1, <1>7 DEF Sound, AtWork
<1>9. AtRest(c)'
  BY <1>2, <1>4, <1>8 DEF AtRest
<1>10. AtWork(c)'
  BY <1>2, <1>8, NoEvents DEF AtWork
<1>11. OnScript(c)'
  <2>1. Position(c) = Len(Script(c))
    BY <1>1, <1>7, NoEvents DEF Position
  <2>2. ~job[c].handling => logs[c] = Logged(c, Len(Script(c))) /\ logs[c] \in {<<>>, <<"success">>}
    BY <1>1, <2>1 DEF Sound, OnScript, Serving
  <2>3. Logged(c, Len(Script(c)))' = Logged(c, Len(Script(c)))
    BY <1>3 DEF Logged
  <2>4. QED
    BY <1>2, <1>4, <2>2, <2>3 DEF OnScript, Serving
<1>12. OnHandler(c)'
  BY <1>1, <1>2, <1>3, <1>4 DEF Sound, OnHandler, Unshowable
<1>13. OnWire(c)'
  BY <1>1, <1>2, <1>3, <1>4 DEF Sound, OnWire, Serving, Sent
<1>14. EndsOnceFor(c)'
  BY <1>1, <1>2, <1>3 DEF Sound, EndsOnceFor
<1>15. Sound(c)'
  BY <1>9, <1>10, <1>11, <1>12, <1>13, <1>14 DEF Sound
<1>16. \A d \in Clients \ {c} : Untouched(d)
  BY <1>2, <1>4 DEF Untouched
<1>17. QED
  BY <1>3, <1>5, <1>15, <1>16, Others

LEMMA Disconnected ==
  ASSUME IInv, NEW c \in Clients, Disconnect(c)
  PROVE  IInv'
<1>1. Typed /\ Sound(c) /\ mode \in Modes /\ c \in Streams
  BY DEF IInv, Typed, Disconnect
<1>2. /\ scenario' = scenario /\ wire' = wire /\ logs' = logs /\ holder' = holder /\ world' = world
      /\ outbox' = [outbox EXCEPT ![c] = <<>>]
  BY DEF Disconnect
<1>3. mode' = mode /\ Script(c)' = Script(c) /\ Fixed
  BY <1>2, SameScripts DEF Fixed
<1>4. /\ job'[c].at = "gone" /\ job'[c].todo = <<>> /\ job'[c].handling = job[c].handling
      /\ job' \in [Clients -> Job]
      /\ \A d \in Clients \ {c} : job'[d] = job[d]
  <2>1. job \in [Clients -> Job] /\ <<>> \in Seq(Items)
    BY <1>1 DEF Typed
  <2>2. job' = [job EXCEPT ![c].at = "gone", ![c].todo = <<>>]
    BY DEF Disconnect
  <2>3. /\ job'[c].at = "gone" /\ job'[c].todo = <<>> /\ job'[c].handling = job[c].handling
        /\ \A d \in Clients \ {c} : job'[d] = job[d]
    BY <2>1, <2>2 DEF Job
  <2>4. job' \in [Clients -> Job]
    <3> DEFINE z == <<>>
    <3>1. job' = [job EXCEPT ![c].at = "gone", ![c].todo = z] /\ z \in Seq(Items)
      BY <2>1, <2>2
    <3> HIDE DEF z
    <3>2. QED
      BY <2>1, <3>1 DEF Job
  <2>5. QED
    BY <2>3, <2>4
<1>5. /\ DOMAIN graph' = Clients
      /\ \A d \in Clients \ {c} : graph'[d] = graph[d]
      /\ DOMAIN graph'[c] = DOMAIN graph[c]
      /\ graph'[c].at \in Done \cup {"off", "closed"}
  BY <1>1 DEF Disconnect, Typed, AgentState, Done
<1>6. /\ outbox' = [d \in Clients |-> outbox'[d]] /\ outbox'[c] = <<>>
      /\ \A d \in Clients \ {c} : outbox'[d] = outbox[d]
  BY <1>1, <1>2 DEF Typed
<1>7. Typed'
  <2>1. \A d \in Clients : AgentState(graph'[d])
    BY <1>1, <1>5 DEF Typed, AgentState
  <2>2. \A d \in Clients : AgentState(graph[d])' <=> AgentState(graph'[d])
    BY <1>3 DEF AgentState
  <2>3. \A d \in Clients : EventSeq(outbox'[d])
    BY <1>1, <1>6, NoEvents DEF Typed
  <2>4. QED
    BY <1>1, <1>2, <1>3, <1>4, <1>5, <1>6, <2>1, <2>2, <2>3 DEF Typed, mode
<1>8. AtRest(c)'
  BY <1>4, <1>6 DEF AtRest
<1>9. AtWork(c)'
  BY <1>5, <1>6, NoEvents DEF AtWork, Done, Working
<1>10. OnScript(c)'
  BY <1>1, <1>2, <1>4 DEF Sound, OnScript, Serving
<1>11. OnHandler(c)'
  BY <1>1, <1>2, <1>3, <1>4, NoEvents DEF Sound, OnHandler, Unshowable
<1>12. OnWire(c)'
  BY <1>1, <1>2, <1>3, <1>4, <1>6 DEF Sound, OnWire, Serving, Sent
<1>13. EndsOnceFor(c)'
  BY <1>1, <1>2, <1>3 DEF Sound, EndsOnceFor
<1>14. Sound(c)'
  BY <1>8, <1>9, <1>10, <1>11, <1>12, <1>13 DEF Sound
<1>15. \A d \in Clients \ {c} : Untouched(d)
  BY <1>2, <1>4, <1>5, <1>6 DEF Untouched
<1>16. QED
  BY <1>3, <1>7, <1>14, <1>15, Others
-----------------------------------------------------------------------------
(* The theorems. *)

LEMMA Stutter ==
  ASSUME IInv, UNCHANGED vars
  PROVE  IInv'
<1>1. /\ UNCHANGED <<scenario, job, wire, logs, holder, graph, outbox, world>>
  BY DEF vars
<1>2. Fixed /\ \A c \in Clients : Untouched(c)
  BY <1>1 DEF Fixed, Untouched
<1>3. \A c \in Clients : Sound(c)'
  BY <1>2, Frame DEF IInv
<1>4. Typed'
  BY <1>1 DEF IInv, Typed, AgentState, mode
<1>5. QED
  BY <1>3, <1>4 DEF IInv

LEMMA Steps ==
  ASSUME IInv, [Next]_vars
  PROVE  IInv'
<1>1. ASSUME NEW c \in Clients, Serve(c)
      PROVE  IInv'
  BY <1>1, AgentRuns, AgentReturned, Relaying, Sending, RuntimeCalled, BenchmarkLogged, Finished
     DEF Serve
<1>2. QED
  BY <1>1, Admitted, Refused, Disconnected, Stutter DEF Next, Over

(* In every state of every scenario a request is in step with its script or    *)
(* with its handler, and what was sent and logged for it is what the part that *)
(* is done accounts for.                                                       *)
THEOREM Invariant == Spec => []IInv
<1>1. Init => IInv
  BY InitiallySound
<1>2. IInv /\ [Next]_vars => IInv'
  BY Steps
<1>3. QED
  BY <1>1, <1>2, PTL DEF Spec

(* Jobs, events, benchmark rows and the owner of the thread are what they      *)
(* should be, and only a stream has events to relay.                           *)
THEOREM TypeCorrect == Spec => []TypeOK
<1>1. ASSUME IInv
      PROVE  TypeOK
  <2>1. ASSUME NEW c \in Clients
        PROVE  /\ job[c].at \in {"idle", "serving", "ended", "gone"}
               /\ \A i \in DOMAIN job[c].todo : job[c].todo[i] \in Items
               /\ \A i \in DOMAIN wire[c] : wire[c][i].type \in Types
               /\ \A i \in DOMAIN logs[c] : logs[c][i] \in {"success", "error"}
               /\ outbox[c] # <<>> => c \in Streams
    <3>1. job[c] \in Job /\ EventSeq(wire[c]) /\ logs[c] \in Seq({"success", "error"}) /\ AtRest(c)
      BY <1>1 DEF IInv, Typed, Sound
    <3>2. job[c].todo \in Seq(Items) /\ job[c].at \in {"idle", "serving", "ended", "gone"}
      BY <3>1 DEF Job
    <3>3. \A i \in DOMAIN job[c].todo : job[c].todo[i] \in Items
      BY <3>2
    <3>4. \A i \in DOMAIN logs[c] : logs[c][i] \in {"success", "error"}
      BY <3>1
    <3>5. QED
      BY <3>1, <3>2, <3>3, <3>4 DEF EventSeq, AtRest
  <2>2. QED
    BY <1>1, <2>1 DEF IInv, Typed, TypeOK
<1>2. QED
  BY <1>1, Invariant, PTL

(* A client is told how its request ended once, but for the error that a       *)
(* benchmark row adds when it fails after an agent's stream has ended.         *)
THEOREM ToldOnce == Spec => []EndsOnce
<1>1. IInv => EndsOnce
  BY DEF IInv, Sound, EndsOnceFor, EndsOnce
<1>2. QED
  BY <1>1, Invariant, PTL

(* Every answered request has its row of success, but the streams of v1, and   *)
(* only an n8n answer that cannot be shown is followed by a row of failure.    *)
THEOREM RowsAreKept == Spec => []BenchmarkRows
<1>1. ASSUME IInv
      PROVE  BenchmarkRows
  <2>1. ASSUME NEW c \in Clients, job[c].at = "ended", Sent(c, "final"), world.log # "raises"
        PROVE  logs[c] = IF c \in Streams /\ mode = "ioa_v1_custom" THEN <<>> ELSE <<"success">>
    <3>1. Sound(c) /\ mode \in Modes
      BY <1>1 DEF IInv, Typed
    <3>2. ~job[c].handling
      BY <2>1, <3>1 DEF Sound, OnWire
    <3>3. logs[c] = Logged(c, Len(Script(c)))
      BY <2>1, <3>1, <3>2 DEF Sound, OnScript
    <3>4. QED
      BY <3>1, <3>3, LoggedAtLast
  <2>2. ASSUME NEW c \in Clients, Len(logs[c]) > 1
        PROVE  logs[c] = <<"success", "error">> /\ Unshowable(c)
    <3>1. Sound(c) /\ job[c].handling \in BOOLEAN
      BY <1>1 DEF IInv, Typed, Job
    <3>2. logs[c] \in {<<>>, <<"success">>, <<"error">>}
            \/ (logs[c] = <<"success", "error">> /\ Unshowable(c))
      BY <3>1 DEF Sound, OnScript, OnHandler
    <3>3. Len(<<>>) = 0 /\ Len(<<"success">>) = 1 /\ Len(<<"error">>) = 1
      OBVIOUS
    <3>4. logs[c] \in {<<>>, <<"success">>, <<"error">>} => Len(logs[c]) = 0 \/ Len(logs[c]) = 1
      BY <3>3, Zenon
    <3>5. ~(0 > 1) /\ ~(1 > 1)
      OBVIOUS
    <3>6. Len(logs[c]) # 0 /\ Len(logs[c]) # 1
      BY <2>2, <3>5
    <3>7. QED
      BY <3>2, <3>4, <3>6
  <2>3. QED
    BY <2>1, <2>2 DEF BenchmarkRows, Unshowable
<1>2. QED
  BY <1>1, Invariant, PTL
=============================================================================
