--------------------------- MODULE TelegramLedger ---------------------------
(***************************************************************************)
(* The in-memory ledger of services/telegram_service.py that keeps one     *)
(* Telegram update from being processed twice: _telegram_updates_inflight  *)
(* (a set), _telegram_updates_processed (an OrderedDict from update key to *)
(* completion time) and the lock around both.                              *)
(*                                                                         *)
(* One action is one critical section of the lock, or one step outside it. *)
(* claim_telegram_update reads the clock BEFORE it takes the lock, so the  *)
(* cutoff a worker prunes with may be older than the ledger it prunes;     *)
(* complete_telegram_update reads it inside.                               *)
(***************************************************************************)
EXTENDS Integers, Sequences

CONSTANTS
  Workers,         \* threads started by the webhook
  Keys,            \* values of update_id, as strings
  NoKey,           \* update_key of an update without an update_id
  Retention,       \* TELEGRAM_UPDATE_RETENTION_SECONDS, in clock units
  Capacity,        \* most entries kept in _telegram_updates_processed
  MaxClock,        \* bound on the clock
  MaxCompletions   \* bound on the completions of one process lifetime

ASSUME LedgerConstants ==
  /\ NoKey \notin Keys
  /\ Retention \in Nat
  /\ Capacity \in Nat \ {0}
  /\ MaxClock \in Nat
  /\ MaxCompletions \in Nat

VARIABLES
  inflight,    \* _telegram_updates_inflight
  processed,   \* _telegram_updates_processed, oldest entry first
  pc,          \* pc[w]: where the thread of worker w is
  key,         \* key[w]: its update_key
  cutoff,      \* cutoff[w]: its local of claim_telegram_update
  now,         \* time.monotonic()
  done,        \* history: the last completion of each key
  completions  \* history: how many completions there were

ledgerVars == <<inflight, processed>>
historyVars == <<done, completions>>
vars == <<inflight, processed, pc, key, cutoff, now, done, completions>>

Claims == INSTANCE UpdateClaims WITH
  claimed <- [w \in Workers |-> IF pc[w] = "working" THEN key[w] ELSE NoKey]

Entry == [key : Keys, at : Nat]
Completion == [at : Nat \union {-1}, serial : Nat]

TypeOK ==
  /\ inflight \in SUBSET Keys
  /\ processed \in Seq(Entry)
  /\ pc \in [Workers -> {"idle", "claiming", "working"}]
  /\ key \in [Workers -> Keys \union {NoKey}]
  /\ cutoff \in [Workers -> Int]
  /\ now \in Nat
  /\ done \in [Keys -> Completion]
  /\ completions \in Nat

Init ==
  /\ inflight = {}
  /\ processed = <<>>
  /\ pc = [w \in Workers |-> "idle"]
  /\ key = [w \in Workers |-> NoKey]
  /\ cutoff = [w \in Workers |-> 0]
  /\ now = 0
  /\ done = [k \in Keys |-> Claims!Never]
  /\ completions = 0

-----------------------------------------------------------------------------
(* The OrderedDict. *)

Remembers(s, k) == \E i \in 1..Len(s) : s[i].key = k

\* s without its first n entries: n calls of popitem(last=False).
DropFirst(s, n) == SubSeq(s, n + 1, Len(s))

\* Faulty variants: entries exactly Retention old are dropped too; the loop is
\* an if, and drops one entry at most.
ExpiredPrefixOffByOne(n, limit) ==
  /\ n \in 0..Len(processed)
  /\ \A i \in 1..n : processed[i].at <= limit
  /\ n < Len(processed) => processed[n + 1].at > limit

ExpiredPrefixOnce(n, limit) ==
  /\ n \in 0..Len(processed)
  /\ n = IF Len(processed) > 0 /\ processed[1].at < limit THEN 1 ELSE 0

\* The while loop of claim_telegram_update stops after n entries: those n are
\* older than limit, and the next one, if any, is not.
ExpiredPrefix(n, limit) ==
  /\ n \in 0..Len(processed)
  /\ \A i \in 1..n : processed[i].at < limit
  /\ n < Len(processed) => processed[n + 1].at >= limit

\* d[k] = t: a key that is present keeps its place, a new one goes last.
Stamp(s, k, t) ==
  IF Remembers(s, k)
    THEN [i \in 1..Len(s) |-> IF s[i].key = k THEN [key |-> k, at |-> t] ELSE s[i]]
    ELSE Append(s, [key |-> k, at |-> t])

\* Faulty variant: popitem() without last=False.
TrimNewest(s) == IF Len(s) > Capacity THEN SubSeq(s, 1, Capacity) ELSE s

\* The while loop of complete_telegram_update.
Trim(s) == IF Len(s) > Capacity THEN DropFirst(s, Len(s) - Capacity) ELSE s

-----------------------------------------------------------------------------
(* A worker thread. *)

\* The webhook starts a thread; it enters claim_telegram_update and reads the clock.
BeginClaim(w, k) ==
  /\ pc[w] = "idle"
  /\ pc' = [pc EXCEPT ![w] = "claiming"]
  /\ key' = [key EXCEPT ![w] = k]
  /\ cutoff' = [cutoff EXCEPT ![w] = now - Retention]
  /\ UNCHANGED <<ledgerVars, now, historyVars>>

\* An update without an update_id is never a duplicate and leaves no trace.
BeginAnonymous(w) ==
  /\ pc[w] = "idle"
  /\ pc' = [pc EXCEPT ![w] = "working"]
  /\ UNCHANGED <<ledgerVars, key, cutoff, now, historyVars>>

\* Faulty variant: only completed updates count as duplicates.
GrantUnchecked(w) ==
  /\ pc[w] = "claiming"
  /\ \E n \in 0..Len(processed) :
       /\ ExpiredPrefix(n, cutoff[w])
       /\ processed' = DropFirst(processed, n)
  /\ ~Remembers(processed', key[w])
  /\ inflight' = inflight \union {key[w]}
  /\ pc' = [pc EXCEPT ![w] = "working"]
  /\ UNCHANGED <<key, cutoff, now, historyVars>>

\* The critical section of claim_telegram_update: prune, look, add.
Grant(w) ==
  /\ pc[w] = "claiming"
  /\ \E n \in 0..Len(processed) :
       /\ ExpiredPrefix(n, cutoff[w])
       /\ processed' = DropFirst(processed, n)
  /\ key[w] \notin inflight
  /\ ~Remembers(processed', key[w])
  /\ inflight' = inflight \union {key[w]}
  /\ pc' = [pc EXCEPT ![w] = "working"]
  /\ UNCHANGED <<key, cutoff, now, historyVars>>

Refuse(w) ==
  /\ pc[w] = "claiming"
  /\ \E n \in 0..Len(processed) :
       /\ ExpiredPrefix(n, cutoff[w])
       /\ processed' = DropFirst(processed, n)
  /\ key[w] \in inflight \/ Remembers(processed', key[w])
  /\ pc' = [pc EXCEPT ![w] = "idle"]
  /\ key' = [key EXCEPT ![w] = NoKey]
  /\ UNCHANGED <<inflight, cutoff, now, historyVars>>

Finish(w) ==
  /\ pc[w] = "working"
  /\ pc' = [pc EXCEPT ![w] = "idle"]
  /\ key' = [key EXCEPT ![w] = NoKey]
  /\ UNCHANGED <<cutoff, now>>

\* Faulty variant: complete_telegram_update without its early return on None.
CompleteAnonymous(w) ==
  /\ Finish(w)
  /\ inflight' = inflight \ {key[w]}
  /\ processed' = Trim(Stamp(processed, key[w], now))
  /\ UNCHANGED historyVars

Complete(w) ==
  /\ Finish(w)
  /\ completions < MaxCompletions
  /\ IF key[w] = NoKey
       THEN UNCHANGED <<ledgerVars, historyVars>>
       ELSE /\ inflight' = inflight \ {key[w]}
            /\ processed' = Trim(Stamp(processed, key[w], now))
            /\ completions' = completions + 1
            /\ done' = [done EXCEPT ![key[w]] = [at |-> now, serial |-> completions']]

Release(w) ==
  /\ Finish(w)
  /\ inflight' = inflight \ {key[w]}
  /\ UNCHANGED <<processed, historyVars>>

Tick ==
  /\ now < MaxClock
  /\ now' = now + 1
  /\ UNCHANGED <<ledgerVars, pc, key, cutoff, historyVars>>

\* The process stops and starts again: threads and module globals are gone.
Restart ==
  /\ inflight' = {}
  /\ processed' = <<>>
  /\ pc' = [w \in Workers |-> "idle"]
  /\ key' = [w \in Workers |-> NoKey]
  /\ cutoff' = [w \in Workers |-> 0]
  /\ done' = [k \in Keys |-> Claims!Never]
  /\ completions' = 0
  /\ UNCHANGED now

Worker(w) ==
  \/ \E k \in Keys : BeginClaim(w, k)
  \/ BeginAnonymous(w)
  \/ Grant(w)
  \/ Refuse(w)
  \/ Complete(w)
  \/ Release(w)

Next == (\E w \in Workers : Worker(w)) \/ Tick \/ Restart

Spec == Init /\ [][Next]_vars

-----------------------------------------------------------------------------
(* Properties. *)

Holds(w, k) == pc[w] = "working" /\ key[w] = k

\* Two threads never work on the same update_id, and the in-flight set is
\* exactly what the working threads hold: no claim is leaked and none is lost,
\* whatever the order of deliveries, completions, failures and restarts.
OneHolderPerUpdate ==
  /\ \A v, w \in Workers : key[v] \in Keys /\ Holds(v, key[v]) /\ Holds(w, key[v]) => v = w
  /\ inflight = {k \in Keys : \E w \in Workers : Holds(w, k)}

\* The ledger forgets a completed update only when it may: an update that is no
\* longer in it was completed more than Retention ago or has been followed by
\* Capacity other completions; one that is in it carries its own completion time.
LedgerRemembers ==
  /\ Len(processed) <= Capacity
  /\ \A k \in Keys : Claims!Repeatable(k) \/ Remembers(processed, k)
  /\ \A i \in 1..Len(processed) : done[processed[i].key].at = processed[i].at

\* A delivery is turned away only for a reason: another thread holds the update,
\* or it was completed no longer than Retention before this delivery was claimed.
\* It needs the entries to stay in order of time, as pruning stops at the first
\* young one.
RefusalIsJustified ==
  [][\A w \in Workers :
       Refuse(w) => key[w] \in inflight \/ done[key[w]].at >= cutoff[w]]_vars

\* The ledger implements the promise of UpdateClaims.
ImplementsClaims == Claims!Spec
=============================================================================
