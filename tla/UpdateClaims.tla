---------------------------- MODULE UpdateClaims ----------------------------
(***************************************************************************)
(* What the de-duplication of Telegram updates promises to the rest of the *)
(* program, without the data structures that deliver it: a worker thread   *)
(* may claim an update only while no other worker holds it, and only if    *)
(* the update was never completed, or was completed more than Retention    *)
(* ago, or at least Capacity other updates were completed after it.        *)
(* A restart of the process forgets everything.                            *)
(***************************************************************************)
EXTENDS Integers

CONSTANTS
  Workers,    \* threads started by the webhook
  Keys,       \* values of update_id, as strings
  NoKey,      \* the update_key of a worker that holds no claim
  Retention,  \* TELEGRAM_UPDATE_RETENTION_SECONDS, in clock units
  Capacity    \* the 2048 of complete_telegram_update

VARIABLES
  claimed,      \* claimed[w]: the key worker w holds, or NoKey
  done,         \* done[k]: the last completion of k, or Never
  completions,  \* completions since the process started
  now           \* time.monotonic()

vars == <<claimed, done, completions, now>>

Never == [at |-> -1, serial |-> 0]

Init ==
  /\ claimed = [w \in Workers |-> NoKey]
  /\ done = [k \in Keys |-> Never]
  /\ completions = 0
  /\ now = 0

\* The promise: when a second run of an update is acceptable.
Repeatable(k) ==
  \/ done[k] = Never
  \/ done[k].at < now - Retention
  \/ completions - done[k].serial >= Capacity

Claim(w, k) ==
  /\ claimed[w] = NoKey
  /\ \A v \in Workers : claimed[v] # k
  /\ Repeatable(k)
  /\ claimed' = [claimed EXCEPT ![w] = k]
  /\ UNCHANGED <<done, completions, now>>

Complete(w) ==
  /\ claimed[w] # NoKey
  /\ completions' = completions + 1
  /\ done' = [done EXCEPT ![claimed[w]] = [at |-> now, serial |-> completions']]
  /\ claimed' = [claimed EXCEPT ![w] = NoKey]
  /\ UNCHANGED now

Release(w) ==
  /\ claimed[w] # NoKey
  /\ claimed' = [claimed EXCEPT ![w] = NoKey]
  /\ UNCHANGED <<done, completions, now>>

Tick ==
  /\ now' \in Nat
  /\ now' > now
  /\ UNCHANGED <<claimed, done, completions>>

Restart ==
  /\ claimed' = [w \in Workers |-> NoKey]
  /\ done' = [k \in Keys |-> Never]
  /\ completions' = 0
  /\ UNCHANGED now

Next ==
  \/ \E w \in Workers, k \in Keys : Claim(w, k)
  \/ \E w \in Workers : Complete(w) \/ Release(w)
  \/ Tick
  \/ Restart

Spec == Init /\ [][Next]_vars
=============================================================================
