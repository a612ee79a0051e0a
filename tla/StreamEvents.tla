---------------------------- MODULE StreamEvents ----------------------------
(* The events an agent yields and the event stream relays to a client:       *)
(* a node of an agent's workflow is announced by a thought and reported by   *)
(* an observation, and a stream is over after a final or an error event.     *)
EXTENDS Sequences

Thought(node) == [type |-> "thought", node |-> node]
Observation(node) == [type |-> "observation", node |-> node]
Final(answer) == [type |-> "final", node |-> answer]
Error == [type |-> "error", node |-> "none"]

(* LangGraphAgent.stream_step                                                *)
StepEvents(node) == <<Thought(node), Observation(node)>>

Types == {"thought", "observation", "final", "error"}
Ends(event) == event.type \in {"final", "error"}
=============================================================================
