-------------------------- MODULE GovernedWorkflow --------------------------
(* What the two governed agents, LangGraphAgent and IoaV3OpsGraphAgent,      *)
(* promise of every request they run: data is read only after the request    *)
(* was approved, only from the sources it was approved for and at most       *)
(* Budget times, and an answer is given only after data was collected.  A    *)
(* source that cannot be read may be stood in for by another one, which the  *)
(* request was not granted.  A request that is refused before approval has   *)
(* read nothing.                                                             *)
EXTENDS Naturals

CONSTANTS Runs,      \* the requests
          Sources,   \* the data sources a tool can read
          Fallback,  \* Fallback[s]: the sources that stand in for s
          Budget     \* the most executions of one request

VARIABLES phase,     \* phase[r]: how far the request is
          granted,   \* granted[r]: the sources it may read
          touched,   \* touched[r]: the sources that were read for it
          count,     \* count[r]: the executions that were made
          down       \* the sources that cannot be read, of this behaviour

vars == <<phase, granted, touched, count, down>>

Phases == {"idle", "asked", "approved", "collected", "answered",
           "refused", "failed"}

Init == /\ phase = [r \in Runs |-> "idle"]
        /\ granted = [r \in Runs |-> {}]
        /\ touched = [r \in Runs |-> {}]
        /\ count = [r \in Runs |-> 0]
        /\ down \in SUBSET Sources

Becomes(r, p) == phase' = [phase EXCEPT ![r] = p]

(* The request arrives with the sources its sender selected.                 *)
Ask(r) == /\ phase[r] = "idle"
          /\ Becomes(r, "asked")
          /\ \E S \in SUBSET Sources : granted' = [granted EXCEPT ![r] = S]
          /\ UNCHANGED <<touched, count, down>>

Approve(r) == /\ phase[r] = "asked"
              /\ Becomes(r, "approved")
              /\ UNCHANGED <<granted, touched, count, down>>

(* What is read where some source of S is down.                              *)
StandIns(S) == {t \in Sources : \E s \in S \cap down : t \in Fallback[s]}

(* One or several executions of approved tools, none over the budget.  The   *)
(* workflow may die in the middle of them.                                   *)
Execute(r) == /\ phase[r] = "approved"
              /\ \E n \in 0 .. Budget - count[r], S \in SUBSET granted[r] :
                   \E F \in SUBSET StandIns(S) :
                     /\ n = 0 => S = {}
                     /\ count' = [count EXCEPT ![r] = @ + n]
                     /\ touched' = [touched EXCEPT ![r] = @ \cup S \cup F]
              /\ \/ UNCHANGED phase
                 \/ Becomes(r, "failed")
              /\ UNCHANGED <<granted, down>>

Collect(r) == /\ phase[r] = "approved"
              /\ count[r] > 0
              /\ Becomes(r, "collected")
              /\ UNCHANGED <<granted, touched, count, down>>

Answer(r) == /\ phase[r] = "collected"
             /\ Becomes(r, "answered")
             /\ UNCHANGED <<granted, touched, count, down>>

(* A refusal, by policy before approval or for want of evidence after it.    *)
Refuse(r) == /\ \/ phase[r] = "asked"
                \/ phase[r] = "approved" /\ count[r] > 0
             /\ Becomes(r, "refused")
             /\ UNCHANGED <<granted, touched, count, down>>

Fail(r) == /\ phase[r] \in {"asked", "approved", "collected"}
           /\ Becomes(r, "failed")
           /\ UNCHANGED <<granted, touched, count, down>>

Next == \E r \in Runs : Ask(r) \/ Approve(r) \/ Execute(r) \/ Collect(r)
                        \/ Answer(r) \/ Refuse(r) \/ Fail(r)

Spec == Init /\ [][Next]_vars

TypeOK == /\ phase \in [Runs -> Phases]
          /\ granted \in [Runs -> SUBSET Sources]
          /\ touched \in [Runs -> SUBSET Sources]
          /\ count \in [Runs -> 0 .. Budget]
          /\ down \in SUBSET Sources

(* No request reads a source it was not granted, but for one that stands in  *)
(* for a granted source that was tried and is down; none reads before it is  *)
(* asked.                                                                    *)
ReadsAreGranted ==
  \A r \in Runs :
    \A t \in touched[r] \ granted[r] : t \in StandIns(touched[r] \cap granted[r])

(* An answered request has read something.                                   *)
AnswersAreBacked == \A r \in Runs : phase[r] = "answered" => count[r] > 0
=============================================================================
