----------------------------- MODULE ReactAgent -----------------------------
(* agents/ioa_v2_agent.py: the workflow ioa_v2_custom.  The language model    *)
(* names a target, then chooses up to three times between a tool and a final  *)
(* answer.  All requests are served by one agent object: the conversation,    *)
(* the last target and the token count of one request are shared with every   *)
(* other, and a stream is suspended at its events while others use them.      *)
EXTENDS Naturals, Sequences, StreamEvents

CONSTANTS Callers,    \* the requests being served
          Streams     \* those served by run_stream

VARIABLES request,    \* request[c]: whether the text refers to a target ("it")
          graph,      \* graph[c]: where the loop is, and its locals
          outbox,     \* outbox[c]: events yielded and not yet taken
          world,      \* what the model replies (see below)
          memory      \* the fields of the agent object

reactVars == <<request, graph, outbox, world, memory>>

(* world.target is the target the model extracts and world.replies what it    *)
(* chooses in each iteration: "final" an answer, "prose" neither an answer    *)
(* nor an action, "unknown" an action that is no tool, "bare" the word ACTION *)
(* with nothing after it, or the name of a tool.  Any call may raise.         *)
max_iterations == 3

SYSTEM_LEVEL_TOOLS == {"check_system_overview", "check_system_alarms"}
TOOLS == SYSTEM_LEVEL_TOOLS \cup {"check_device_status", "get_recent_logs", "check_alarm_rules"}

initial_state == [at |-> "off", target |-> "SYSTEM", turn |-> 1, observations |-> <<>>,
                  own |-> 0, answer |-> "none", reported |-> 0]

initial_memory == [conversation_history |-> <<>>, last_target |-> "none", token_usage |-> 0]

Enters(c, node) == graph[c].at = node /\ outbox[c] = <<>>

\* Faulty variant: run appends events too.
YieldsToAll(c, events) == outbox' = [outbox EXCEPT ![c] = events]

Yields(c, events) == outbox' = [outbox EXCEPT ![c] = IF c \in Streams THEN events ELSE <<>>]

(* reset_token_usage and record_token_usage: the tokens of a call of the model *)
(* are added to the shared count.                                              *)
\* Faulty variant: a request goes on counting from the last one.
Unreset == memory
Reset == [memory EXCEPT !.token_usage = 0]
Counted == [memory EXCEPT !.token_usage = @ + 1]

Raises(c) == /\ graph' = [graph EXCEPT ![c].at = "raised"]
             /\ UNCHANGED outbox

-----------------------------------------------------------------------------
Start(c, r) == /\ graph[c].at = "off"
               /\ request' = [request EXCEPT ![c] = r]
               /\ graph' = [graph EXCEPT ![c].at = "extract_target"]
               /\ UNCHANGED <<outbox, world, memory>>

(* reset_token_usage and extract_target.  A text that refers to the last       *)
(* target is not shown to the model; a reply that is neither a device nor      *)
(* SYSTEM stands for the last target too.                                      *)
ExtractTarget(c) ==
  /\ Enters(c, "extract_target")
  /\ LET last == memory.last_target
         refers == last # "none" /\ request[c].refers
         target == CASE refers -> last
                     [] ~refers /\ world.target \in {"device", "SYSTEM"} -> world.target
                     [] OTHER -> IF last = "none" THEN "SYSTEM" ELSE last
     IN IF ~refers /\ world.target = "raises"
        THEN /\ Raises(c)
             /\ memory' = Reset
        ELSE /\ graph' = [graph EXCEPT ![c].at = "choose_next_step", ![c].target = target,
                                       ![c].own = IF refers THEN 0 ELSE 1]
             /\ memory' = [Reset EXCEPT !.token_usage = IF refers THEN @ ELSE @ + 1,
                                        !.last_target = IF target = "SYSTEM" THEN @ ELSE target]
             /\ UNCHANGED outbox
  /\ UNCHANGED <<request, world>>

(* collect_required_evidence, for a model that would answer without any.       *)
required(target) == IF target = "SYSTEM" THEN "check_system_overview" ELSE "check_device_status"

\* Faulty variant: a model that answers at once is taken at its word.
Uncollected(g) == g

Collected(g) == IF g.observations = <<>> THEN [g EXCEPT !.observations = <<required(g.target)>>]
                ELSE g

Turn(g) == [g EXCEPT !.turn = @ + 1,
                     !.at = IF g.turn = max_iterations THEN "generate_final_answer"
                            ELSE "choose_next_step"]

\* Faulty variant: the question is not remembered.
AnswersUnasked(c, g, answer, usage) ==
  /\ graph' = [graph EXCEPT ![c] = [g EXCEPT !.at = "answered", !.answer = answer,
                                             !.reported = usage]]
  /\ memory' = [memory EXCEPT !.token_usage = usage,
                  !.conversation_history = Append(@, <<c, "assistant">>)]

(* save_to_history, and the answer with the token count the object holds.      *)
Answers(c, g, answer, usage) ==
  /\ graph' = [graph EXCEPT ![c] = [g EXCEPT !.at = "answered", !.answer = answer,
                                             !.reported = usage]]
  /\ memory' = [memory EXCEPT !.token_usage = usage,
                  !.conversation_history = @ \o <<<<c, "user">>, <<c, "assistant">>>>]

ChooseNextStep(c) ==
  /\ Enters(c, "choose_next_step")
  /\ LET reply == world.replies[graph[c].turn]
         asked == [graph[c] EXCEPT !.own = @ + 1]
         unseen == asked.observations = <<>>
         events == IF unseen THEN StepEvents("collect_required_evidence") ELSE <<>>
     IN \/ reply = "raises" /\ Raises(c) /\ UNCHANGED memory
        \/ reply = "bare" /\ Raises(c) /\ memory' = Counted
        \/ /\ reply = "final" /\ ~unseen
           /\ Answers(c, asked, "answer", Counted.token_usage)
           /\ Yields(c, <<Final("answer")>>)
        \/ /\ reply = "final" /\ unseen
           /\ graph' = [graph EXCEPT ![c] = Turn(Collected(asked))]
           /\ Yields(c, events)
           /\ memory' = Counted
        \/ /\ reply = "prose"
           /\ graph' = [graph EXCEPT ![c] = [Collected(asked) EXCEPT !.at = "generate_final_answer"]]
           /\ Yields(c, events)
           /\ memory' = Counted
        \/ /\ reply \in TOOLS \cup {"unknown"}
           /\ graph' = [graph EXCEPT ![c] = [asked EXCEPT !.at = "execute_tool"]]
           /\ Yields(c, <<Thought(reply)>>)
           /\ memory' = Counted
  /\ UNCHANGED <<request, world>>

Enough(g) == /\ g.target = "SYSTEM"
             /\ SYSTEM_LEVEL_TOOLS \subseteq {g.observations[i] : i \in DOMAIN g.observations}

(* An action that is no tool is an answer of run, which is not remembered, and *)
(* an error of run_stream.                                                     *)
ExecuteTool(c) ==
  /\ Enters(c, "execute_tool")
  /\ LET action == world.replies[graph[c].turn]
         seen == [graph[c] EXCEPT !.observations = Append(@, action)]
     IN IF action \notin TOOLS
        THEN /\ graph' = [graph EXCEPT ![c].at = "invalid", ![c].answer = "invalid_tool",
                                       ![c].reported = memory.token_usage]
             /\ Yields(c, <<Error>>)
        ELSE /\ graph' = [graph EXCEPT ![c] =
                            IF Enough(seen) THEN [seen EXCEPT !.at = "generate_final_answer"]
                            ELSE Turn(seen)]
             /\ Yields(c, <<Observation(action)>>)
  /\ UNCHANGED <<request, world, memory>>

GenerateFinalAnswer(c) ==
  /\ Enters(c, "generate_final_answer")
  /\ LET asked == [graph[c] EXCEPT !.own = @ + 1]
     IN IF world.model = "raises"
        THEN Raises(c) /\ UNCHANGED memory
        ELSE /\ Answers(c, asked, "answer", Counted.token_usage)
             /\ Yields(c, <<Final("answer")>>)
  /\ UNCHANGED <<request, world>>

Step(c) == ExtractTarget(c) \/ ChooseNextStep(c) \/ ExecuteTool(c) \/ GenerateFinalAnswer(c)
-----------------------------------------------------------------------------
(* No answer is given without an observation, whatever the model replies: a    *)
(* model that would answer at once, or says nothing usable, is given the       *)
(* evidence its target requires first.                                         *)
AnswersHaveEvidence ==
  \A c \in Callers : graph[c].at = "answered" => graph[c].observations # <<>>

(* The conversation that is shared by all requests stays one of questions      *)
(* followed by their own answers, however streams are suspended or closed.     *)
HistoryIsPaired ==
  LET history == memory.conversation_history
  IN /\ Len(history) % 2 = 0
     /\ \A i \in DOMAIN history :
          i % 2 = 1 => /\ history[i][2] = "user"
                       /\ history[i + 1] = <<history[i][1], "assistant">>

(* What run reports as its token usage is what its own calls used, although    *)
(* suspended streams count in the same field.                                  *)
RunReportsItsOwnUsage ==
  \A c \in Callers \ Streams :
    graph[c].at \in {"answered", "invalid"} => graph[c].reported = graph[c].own
=============================================================================
