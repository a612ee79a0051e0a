------------------------------ MODULE McpPacing ------------------------------
(***************************************************************************)
(* Calls of MCP tools by several threads (call_mcp_tool of                 *)
(* services/mcp_client.py): all requests of the process are spaced by      *)
(* _pace_mcp_request, which sleeps with its lock held, and a request that  *)
(* the server refuses with 429 is made again after a pause.                *)
(*                                                                         *)
(* _last_mcp_request_at is the deque of a limiter that lets one request    *)
(* through per interval, and delays the others instead of refusing them.   *)
(***************************************************************************)
EXTENDS SlidingWindow

CONSTANTS
  Pace,         \* the key of the limiter; its window is MCP_CLIENT_MIN_INTERVAL_SECONDS
  McpAttempts,  \* MCP_CLIENT_RETRY_ATTEMPTS
  Free          \* the holder of a lock nobody holds

ASSUME McpPacingConstants ==
  /\ Pace \in Keys \ WallTimed
  /\ Limit[Pace] = 1
  /\ McpAttempts \in Nat \ {0}
  /\ Free \notin Callers

VARIABLES
  lock,  \* who holds _mcp_request_lock
  call   \* the call of each thread: where it is, its attempt, when its sleep ends

calls == <<lock, call>>

NoCall == [at |-> "none", attempt |-> 0, wake |-> 0]

CallsTypeOK ==
  /\ lock \in Callers \union {Free}
  /\ call \in [Callers -> [at : {"none", "pace", "asleep", "asked", "pause"},
                           attempt : 0..McpAttempts - 1, wake : Nat]]

CallsInit ==
  /\ lock = Free
  /\ call = [c \in Callers |-> NoCall]

InCall(c, at) == call[c].at = at

-----------------------------------------------------------------------------
CallTool(c) ==
  /\ InCall(c, "none")
  /\ call' = [call EXCEPT ![c].at = "pace"]
  /\ UNCHANGED <<lock, limiters>>

\* Faulty variant: the lock is given back before the sleep.
TakeLockBriefly(c) ==
  /\ InCall(c, "pace")
  /\ lock = Free
  /\ call' = [call EXCEPT ![c] = [@ EXCEPT !.at = "asleep", !.wake =
       IF log[Pace] = <<>> THEN clock ELSE log[Pace][1] + Window[Pace]]]
  /\ UNCHANGED <<lock, limiters>>

\* with _mcp_request_lock: how long to wait.
TakeLock(c) ==
  /\ InCall(c, "pace")
  /\ lock = Free
  /\ lock' = c
  /\ call' = [call EXCEPT ![c] = [@ EXCEPT !.at = "asleep", !.wake =
       IF log[Pace] = <<>> THEN clock ELSE log[Pace][1] + Window[Pace]]]
  /\ UNCHANGED limiters

\* The sleep is over, perhaps late; the clock is read again and the request sent.
Paced(c) ==
  /\ InCall(c, "asleep")
  /\ clock >= call[c].wake
  /\ log' = [log EXCEPT ![Pace] = <<clock>>]
  /\ admitted' = [admitted EXCEPT ![Pace] = Append(@, clock)]
  /\ lock' = Free
  /\ call' = [call EXCEPT ![c] = [@ EXCEPT !.at = "asked", !.wake = 0]]
  /\ UNCHANGED <<clock, wall, stamp>>

\* The result, or an error that is raised.
Returned(c) ==
  /\ InCall(c, "asked")
  /\ call' = [call EXCEPT ![c] = NoCall]
  /\ UNCHANGED <<lock, limiters>>

\* 429: asyncio.sleep(1.0 + attempt), while attempts are left.
RateLimited(c) ==
  /\ InCall(c, "asked")
  /\ call[c].attempt < McpAttempts - 1
  /\ call' = [call EXCEPT ![c] = [@ EXCEPT !.at = "pause", !.wake = clock + 1 + call[c].attempt]]
  /\ UNCHANGED <<lock, limiters>>

AskAgain(c) ==
  /\ InCall(c, "pause")
  /\ clock >= call[c].wake
  /\ call' = [call EXCEPT ![c] = [at |-> "pace", attempt |-> @.attempt + 1, wake |-> 0]]
  /\ UNCHANGED <<lock, limiters>>

CallsLost ==
  /\ lock' = Free
  /\ call' = [c \in Callers |-> NoCall]
=============================================================================
