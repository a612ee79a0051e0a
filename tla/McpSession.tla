------------------------------ MODULE McpSession ------------------------------
(***************************************************************************)
(* Reads of company data through the MCP server: the caller's side of      *)
(* MCPCompanyMongoReadProxy (services/company_mongo_proxy.py), and the     *)
(* SyncMcpToolSession it reads through (services/mcp_client.py), which     *)
(* runs an asyncio client on a thread of its own and talks to it over a    *)
(* queue.  The None that tells the thread to stop travels in the same      *)
(* queue as the requests.                                                  *)
(*                                                                         *)
(* One caller uses one session at a time; an action is what it, or the     *)
(* session's thread, does between two points where it waits.  The server   *)
(* answers as it likes: the client library and HTTP bound how long.        *)
(***************************************************************************)
EXTENDS Integers, Sequences

CONSTANTS
  OpenAttempts,     \* the 3 of SyncMcpToolSession.__enter__
  CallAttempts,     \* the 3 of _call_mcp_read_tool
  MaxReads,         \* bound on reads of the caller
  MaxOpenFailures,  \* bound on connections that fail to open
  MaxBreaks         \* bound on connections that break while nothing is asked

ASSUME SessionConstants ==
  /\ OpenAttempts \in Nat \ {0}
  /\ CallAttempts \in Nat \ {0}
  /\ {MaxReads, MaxOpenFailures, MaxBreaks} \subseteq Nat

VARIABLES
  pc,       \* where the caller is; "idle" outside the with block of the proxy
  after,    \* what follows once close() has joined the thread
  opening,  \* attempt of __enter__
  attempt,  \* attempt of _call_mcp_read_tool; 0 between two reads
  queue,    \* _requests of the session
  thread,   \* _thread of the session; "none" when it is None
  ready,    \* _ready
  failed,   \* _error is not None
  future,   \* the Future of the request under way
  reads, openFailures, breaks \* reads, failures and breaks so far

caller == <<pc, after, opening, attempt, reads>>
session == <<queue, thread, ready, failed, future>>
faults == <<openFailures, breaks>>
vars == <<caller, session, faults>>

\* The items of the queue.
Stop == "None"
Request == "request"

TypeOK ==
  /\ pc \in {"idle", "starting", "open", "calling", "joining"}
  /\ after \in {"nothing", "again", "raise", "reopen", "leave"}
  /\ opening \in 0..OpenAttempts
  /\ attempt \in 0..CallAttempts
  /\ queue \in Seq({Stop, Request})
  /\ thread \in {"none", "opening", "serving", "executing", "draining", "ended"}
  /\ ready \in BOOLEAN
  /\ failed \in BOOLEAN
  /\ future \in {"none", "pending", "value", "retryable", "fatal"}
  /\ reads \in 0..MaxReads
  /\ openFailures \in 0..MaxOpenFailures
  /\ breaks \in 0..MaxBreaks

Init ==
  /\ pc = "idle"
  /\ after = "nothing"
  /\ opening = 0
  /\ attempt = 0
  /\ queue = <<>>
  /\ thread = "none"
  /\ ready = FALSE
  /\ failed = FALSE
  /\ future = "none"
  /\ reads = 0
  /\ openFailures = 0
  /\ breaks = 0

-----------------------------------------------------------------------------
(* The caller. *)

\* One round of __enter__: a thread is started, its _ready awaited.
StartThread ==
  /\ pc' = "starting"
  /\ thread' = "opening"
  /\ ready' = FALSE
  /\ failed' = FALSE

\* Faulty variant: close() sends no None.
CloseQuietly(next) ==
  /\ UNCHANGED queue
  /\ pc' = "joining"
  /\ after' = next

\* close(), up to the join.
Close(next) ==
  /\ queue' = Append(queue, Stop)
  /\ pc' = "joining"
  /\ after' = next

\* The with block is entered: a new session, its first thread.
Enter ==
  /\ pc = "idle"
  /\ reads < MaxReads
  /\ StartThread
  /\ opening' = 1
  /\ queue' = <<>>
  /\ UNCHANGED <<after, attempt, reads, future, faults>>

Opened ==
  /\ pc = "starting"
  /\ ready
  /\ ~failed
  /\ pc' = "open"
  /\ UNCHANGED <<after, opening, attempt, reads, session, faults>>

OpenFailed ==
  /\ pc = "starting"
  /\ ready
  /\ failed
  /\ Close(IF opening < OpenAttempts THEN "again" ELSE "raise")
  /\ UNCHANGED <<opening, attempt, reads, thread, ready, failed, future, faults>>

\* call_tool, for a new read or for the next attempt at one.  A read whose
\* session could not be reopened has no thread: it raises at once.
Call ==
  /\ pc = "open"
  /\ reads < MaxReads
  /\ IF thread = "none"
       THEN /\ reads' = reads + 1
            /\ UNCHANGED <<pc, attempt, queue, future>>
       ELSE /\ queue' = Append(queue, Request)
            /\ future' = "pending"
            /\ attempt' = attempt + 1
            /\ pc' = "calling"
            /\ UNCHANGED reads
  /\ UNCHANGED <<after, opening, thread, ready, failed, faults>>

\* The Future holds a value, or an error that ends the read.
Answered ==
  /\ pc = "calling"
  /\ future \in {"value", "fatal"} \/ (future = "retryable" /\ attempt = CallAttempts)
  /\ pc' = "open"
  /\ attempt' = 0
  /\ reads' = reads + 1
  /\ future' = "none"
  /\ UNCHANGED <<after, opening, queue, thread, ready, failed, faults>>

\* _reopen_session.
Retry ==
  /\ pc = "calling"
  /\ future = "retryable"
  /\ attempt < CallAttempts
  /\ Close("reopen")
  /\ future' = "none"
  /\ UNCHANGED <<opening, attempt, reads, thread, ready, failed, faults>>

\* The with block is left.
Leave ==
  /\ pc = "open"
  /\ attempt = 0
  /\ IF thread = "none"
       THEN pc' = "idle" /\ UNCHANGED <<after, queue>>
       ELSE Close("leave")
  /\ UNCHANGED <<opening, attempt, reads, thread, ready, failed, future, faults>>

\* Faulty variant: close() does not wait for the thread.
JoinWithoutWaiting ==
  /\ pc = "joining"
  /\ after' = "nothing"
  /\ \/ /\ after = "again"
        /\ StartThread
        /\ opening' = opening + 1
        /\ UNCHANGED <<attempt, queue>>
     \/ /\ after = "reopen"
        /\ StartThread
        /\ opening' = 1
        /\ queue' = <<>>
        /\ UNCHANGED attempt
     \/ /\ after \in {"raise", "leave"}
        /\ thread' = "none"
        /\ pc' = IF after = "raise" /\ attempt > 0 THEN "open" ELSE "idle"
        /\ attempt' = 0
        /\ UNCHANGED <<opening, queue, ready, failed>>
  /\ UNCHANGED <<reads, future, faults>>

\* The thread has ended, close() returns.  __enter__ tries again on the same
\* session, whose queue still holds what nobody took out of it, or raises - out
\* of the with statement, or out of the read that wanted to reopen.
\* _reopen_session makes a new session.
Join ==
  /\ pc = "joining"
  /\ thread = "ended"
  /\ after' = "nothing"
  /\ \/ /\ after = "again"
        /\ StartThread
        /\ opening' = opening + 1
        /\ UNCHANGED <<attempt, queue>>
     \/ /\ after = "reopen"
        /\ StartThread
        /\ opening' = 1
        /\ queue' = <<>>
        /\ UNCHANGED attempt
     \/ /\ after \in {"raise", "leave"}
        /\ thread' = "none"
        /\ pc' = IF after = "raise" /\ attempt > 0 THEN "open" ELSE "idle"
        /\ attempt' = 0
        /\ UNCHANGED <<opening, queue, ready, failed>>
  /\ UNCHANGED <<reads, future, faults>>

-----------------------------------------------------------------------------
(* The thread of the session. *)

Connect ==
  /\ thread = "opening"
  /\ thread' = "serving"
  /\ ready' = TRUE
  /\ UNCHANGED <<caller, queue, failed, future, faults>>

\* _main raises before the session is ready: nobody reads the queue any more.
FailToConnect ==
  /\ thread = "opening"
  /\ openFailures < MaxOpenFailures
  /\ openFailures' = openFailures + 1
  /\ thread' = "ended"
  /\ ready' = TRUE
  /\ failed' = TRUE
  /\ UNCHANGED <<caller, queue, future, breaks>>

TakeRequest ==
  /\ thread = "serving"
  /\ queue # <<>>
  /\ Head(queue) = Request
  /\ queue' = Tail(queue)
  /\ thread' = "executing"
  /\ UNCHANGED <<caller, ready, failed, future, faults>>

TakeStop ==
  /\ thread = "serving"
  /\ queue # <<>>
  /\ Head(queue) = Stop
  /\ queue' = Tail(queue)
  /\ thread' = "ended"
  /\ UNCHANGED <<caller, ready, failed, future, faults>>

\* Faulty variant: an exception of the tool call is not put into the Future.
ServeValuesOnly ==
  /\ thread = "executing"
  /\ future' \in {"value", "pending"}
  /\ thread' = "serving"
  /\ UNCHANGED <<caller, queue, ready, failed, faults>>

\* The tool call returns or raises; either way the Future is done.
Serve ==
  /\ thread = "executing"
  /\ future' \in {"value", "retryable", "fatal"}
  /\ thread' = "serving"
  /\ UNCHANGED <<caller, queue, ready, failed, faults>>

\* The connection breaks and cancels the loop while an executor thread waits for
\* the queue on its behalf: shutdown_default_executor waits for that one.
Break ==
  /\ thread = "serving"
  /\ breaks < MaxBreaks
  /\ breaks' = breaks + 1
  /\ failed' = TRUE
  /\ thread' = "draining"
  /\ UNCHANGED <<caller, queue, ready, future, openFailures>>

\* The executor thread takes an item that nobody will look at.
Drain ==
  /\ thread = "draining"
  /\ queue # <<>>
  /\ queue' = Tail(queue)
  /\ thread' = "ended"
  /\ UNCHANGED <<caller, ready, failed, future, faults>>

Proceed == Opened \/ OpenFailed \/ Answered \/ Retry \/ Join
Caller == Enter \/ Call \/ Leave \/ Proceed
Thread == Connect \/ FailToConnect \/ TakeRequest \/ TakeStop \/ Serve \/ Drain
Next == Caller \/ Thread \/ Break

\* The caller need not read or leave, but goes on when what it waits for is
\* there; the thread is scheduled, and the server answers or times out.
Spec == Init /\ [][Next]_vars /\ WF_vars(Proceed) /\ WF_vars(Thread)

-----------------------------------------------------------------------------
(* Properties. *)

\* A session never has two threads on one queue: a new one is started only when
\* the last has ended, also when opening fails or the connection breaks.
OneThread ==
  [][thread' = "opening" /\ thread # "opening" => thread \in {"none", "ended"}]_vars

\* close() returns: whatever became of the thread, and whatever is left in the
\* queue, the None it sends ends the thread that it joins.
CloseReturns == pc = "joining" ~> pc # "joining"

\* A read on a session that opened at its first attempt returns, with a value or
\* an error, whatever earlier sessions went through and however often its tool
\* call fails - unless the connection breaks first.
CallsReturnOnFreshSessions ==
  pc = "calling" /\ opening = 1 ~> pc # "calling" \/ thread \in {"draining", "ended"}

\* docs/ARCHITECTURE.md lists timeouts among the guarantees of company reads: a
\* tool call returns, with a value or with an error.
CallsReturn == pc = "calling" ~> pc # "calling"
=============================================================================
