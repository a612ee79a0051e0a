---------------------------- MODULE SlidingWindow ----------------------------
(***************************************************************************)
(* The sliding-window rate limiters: SlidingWindowRateLimiter of           *)
(* services/company_mongo_proxy.py, which web and Telegram threads share,  *)
(* and the same algorithm on the login, diagnosis and MongoDB routes,      *)
(* which only the web server runs, one request at a time.                  *)
(*                                                                         *)
(* A caller reads the clock before it takes the lock: time passes and      *)
(* other callers are admitted in between, and the deque of times need not  *)
(* be sorted.  The diagnosis limiter times its requests by time.time(),    *)
(* which may be set forward or back, the others by time.monotonic().       *)
(***************************************************************************)
EXTENDS Integers, Sequences, FiniteSets

CONSTANTS
  Keys,       \* what is limited: one deque of times each
  Callers,    \* the threads that share the limiter of the proxied reads
  Limit,      \* requests admitted in a window, by key
  Window,     \* length of the window, by key
  WallTimed,  \* the keys of the limiter that uses time.time()
  MaxTime     \* bound on both clocks

ASSUME SlidingWindowConstants ==
  /\ Limit \in [Keys -> Nat \ {0}]
  /\ Window \in [Keys -> Nat \ {0}]
  /\ WallTimed \subseteq Keys
  /\ MaxTime \in Nat

VARIABLES
  clock,    \* time.monotonic
  wall,     \* time.time, counted from when the process starts
  log,      \* _request_log, by key
  stamp,    \* the local now of each caller
  admitted  \* history: the times of all requests admitted since the deque was last dropped;
            \* when the clock is set back, it begins again with those in the deque

limiters == <<clock, wall, log, stamp, admitted>>

Now(k) == IF k \in WallTimed THEN wall ELSE clock

LimitersTypeOK ==
  /\ {clock, wall} \subseteq 0..MaxTime
  /\ \A k \in Keys : log[k] \in Seq(0..MaxTime) /\ Len(log[k]) <= Limit[k]
  /\ stamp \in [Callers -> 0..MaxTime]
  /\ \A k \in Keys : admitted[k] \in Seq(0..MaxTime)

LimitersInit ==
  /\ clock = 0
  /\ wall = 0
  /\ log = [k \in Keys |-> <<>>]
  /\ stamp = [c \in Callers |-> 0]
  /\ admitted = [k \in Keys |-> <<>>]

-----------------------------------------------------------------------------
\* Faulty variant: a time behind the head that is too old takes the deque along.
PruneAll(times, start) == IF \E i \in DOMAIN times : times[i] <= start THEN <<>> ELSE times

\* The loop pops from the left only: it stops at the first time that is inside.
Prune(times, start) ==
  LET outside == {i \in DOMAIN times : \A j \in 1..i : times[j] <= start}
  IN SubSeq(times, Cardinality(outside) + 1, Len(times))

Inside(k, now) == Prune(log[k], now - Window[k])

Admit(k, now) ==
  /\ Len(Inside(k, now)) < Limit[k]
  /\ log' = [log EXCEPT ![k] = Append(Inside(k, now), now)]
  /\ admitted' = [admitted EXCEPT ![k] = Append(@, now)]

\* The times that have left the window are gone all the same.
Refuse(k, now) ==
  /\ Len(Inside(k, now)) >= Limit[k]
  /\ log' = [log EXCEPT ![k] = Inside(k, now)]
  /\ UNCHANGED admitted

\* now = self.clock(), outside the lock.
ReadClock(c) ==
  /\ stamp' = [stamp EXCEPT ![c] = clock]
  /\ UNCHANGED <<clock, wall, log, admitted>>

\* The check is over and the caller's now is gone.
Forget(c) ==
  /\ stamp' = [stamp EXCEPT ![c] = 0]
  /\ UNCHANGED <<clock, wall>>

\* A limiter of the web server alone: nobody comes between clock and deque.
CheckAlone(k) ==
  /\ Admit(k, Now(k)) \/ Refuse(k, Now(k))
  /\ UNCHANGED <<clock, wall, stamp>>

\* check_login_rate_limit, and clear_login_rate_limit when the password was right.
LoginAdmitted(k) ==
  /\ Len(Inside(k, Now(k))) < Limit[k]
  /\ log' = [log EXCEPT ![k] = <<>>]
  /\ admitted' = [admitted EXCEPT ![k] = <<>>]
  /\ UNCHANGED <<clock, wall, stamp>>

Tick ==
  /\ clock < MaxTime
  /\ clock' = clock + 1
  /\ UNCHANGED <<wall, log, stamp, admitted>>

\* The time of day passes, or the clock is set forward.
WallForward == \E t \in 0..MaxTime :
  /\ t > wall
  /\ wall' = t
  /\ UNCHANGED <<clock, log, stamp, admitted>>

\* The clock is set back: times in the deque may now lie ahead of it.
WallBack == \E t \in 0..MaxTime :
  /\ t < wall
  /\ wall' = t
  /\ admitted' = [k \in Keys |-> IF k \in WallTimed THEN log[k] ELSE admitted[k]]
  /\ UNCHANGED <<clock, log, stamp>>

\* The deques are process memory.
LimitersLost ==
  /\ log' = [k \in Keys |-> <<>>]
  /\ stamp' = [c \in Callers |-> 0]
  /\ admitted' = [k \in Keys |-> <<>>]
  /\ UNCHANGED <<clock, wall>>

-----------------------------------------------------------------------------
\* Of the requests that read the limiter's clock within the window that ends
\* now, never more than the limit were admitted, whatever the order in which
\* their times got into the deque and although it is only pruned from the left.
\* (By the time of admission it is one more for each thread that read the clock
\* before the window and came to the lock inside it.)  For the diagnosis routes
\* this is a promise about one reckoning of the time of day only: it counts the
\* requests admitted since the clock was last set back and those whose times
\* were still in the deque then; what had left the deque before is forgotten,
\* and may have been admitted at the same times of day.
LimitHolds ==
  \A k \in Keys :
    Cardinality({i \in DOMAIN admitted[k] : admitted[k][i] > Now(k) - Window[k]}) <= Limit[k]
=============================================================================
