-------------------------- MODULE McpSession_proofs --------------------------
(***************************************************************************)
(* Proofs about McpSession, for any number of attempts, reads, failed      *)
(* openings and broken connections.  That close() and the calls return is  *)
(* liveness and stays with TLC; what is proved of it here is what never    *)
(* gets lost on the way: the None that ends the thread, and the request    *)
(* of a session whose first opening succeeded.                             *)
(***************************************************************************)
EXTENDS McpSession, SequenceTheorems, TLAPS

(***************************************************************************)
(* The inductive invariant.                                                *)
(***************************************************************************)
\* Where the caller is, the session has a thread or not; the counters of the
\* two retry loops stay within them.
ProtocolInv ==
  /\ pc = "idle" => thread = "none"
  /\ pc \in {"starting", "calling", "joining"} => thread # "none"
  /\ pc = "joining" /\ after = "again" => opening < OpenAttempts
  /\ pc # "idle" => opening > 0
  /\ pc # "calling" => attempt < CallAttempts
  /\ pc = "calling" => attempt > 0
  /\ attempt > 0 => reads < MaxReads /\ thread # "none"

\* The thread that close() joins has ended, or finds a None in its queue.
StopIsThere ==
  pc = "joining" /\ thread # "ended" => \E i \in 1..Len(queue) : queue[i] = Stop

\* The caller waits for an answer.
Waiting == pc = "calling" /\ future = "pending"

\* On a session that opened at its first attempt the queue holds the request
\* under way until the thread takes it, and nothing else.
FreshQueue ==
  opening = 1 /\ pc # "joining" =>
    /\ thread = "executing" => Waiting /\ queue = <<>>
    /\ thread \in {"opening", "serving"} => queue = IF Waiting THEN <<Request>> ELSE <<>>

IInv == TypeOK /\ ProtocolInv /\ StopIsThere /\ FreshQueue

-----------------------------------------------------------------------------
LEMMA Constants ==
  /\ OpenAttempts \in Nat \ {0} /\ CallAttempts \in Nat \ {0}
  /\ MaxReads \in Nat /\ MaxOpenFailures \in Nat /\ MaxBreaks \in Nat
BY SessionConstants

LEMMA Items == Stop # Request /\ Stop \in {Stop, Request} /\ Request \in {Stop, Request}
BY DEF Stop, Request

\* What is put into the queue is in it, and stays until it is taken.
LEMMA AppendFinds ==
  ASSUME NEW q \in Seq({Stop, Request}), NEW x \in {Stop, Request}
  PROVE  /\ Append(q, x) \in Seq({Stop, Request})
         /\ \E i \in 1..Len(Append(q, x)) : Append(q, x)[i] = x
<1>1. /\ Append(q, x) \in Seq({Stop, Request})
      /\ Len(Append(q, x)) = Len(q) + 1 /\ Append(q, x)[Len(q) + 1] = x
  BY AppendProperties
<1>2. Len(q) + 1 \in 1..Len(Append(q, x))
  BY <1>1, LenProperties
<1>3. QED
  BY <1>1, <1>2

LEMMA TailKeeps ==
  ASSUME NEW q \in Seq({Stop, Request}), q # <<>>
  PROVE  /\ Tail(q) \in Seq({Stop, Request})
         /\ Head(q) # Stop /\ (\E i \in 1..Len(q) : q[i] = Stop)
              => \E i \in 1..Len(Tail(q)) : Tail(q)[i] = Stop
<1>1. /\ Head(q) = q[1] /\ Len(q) \in Nat
      /\ Tail(q) \in Seq({Stop, Request}) /\ Len(Tail(q)) = Len(q) - 1
      /\ \A i \in 1..Len(Tail(q)) : Tail(q)[i] = q[i + 1]
  BY HeadTailProperties, LenProperties
<1>2. ASSUME Head(q) # Stop, NEW i \in 1..Len(q), q[i] = Stop
      PROVE  \E j \in 1..Len(Tail(q)) : Tail(q)[j] = Stop
  <2>1. i - 1 \in 1..Len(Tail(q)) /\ (i - 1) + 1 = i
    BY <1>1, <1>2
  <2>2. Tail(q)[i - 1] = q[i]
    BY <1>1, <2>1
  <2>3. QED
    BY <1>2, <2>1, <2>2
<1>3. QED
  BY <1>1, <1>2

-----------------------------------------------------------------------------
(* Types. *)

LEMMA TypeStep == TypeOK /\ ProtocolInv /\ [Next]_vars => TypeOK'
<1> SUFFICES ASSUME TypeOK, ProtocolInv, [Next]_vars PROVE TypeOK'
  OBVIOUS
<1> USE Constants DEF TypeOK, caller, session, faults
<1>e. <<>> \in Seq({Stop, Request})
  OBVIOUS
<1>a. \A x \in {Stop, Request} : Append(queue, x) \in Seq({Stop, Request})
  BY AppendFinds
<1>h. queue # <<>> => Tail(queue) \in Seq({Stop, Request})
  BY TailKeeps
<1>1. CASE Enter
  <2>1. opening' \in 0..OpenAttempts
    BY <1>1 DEF Enter
  <2>2. queue' \in Seq({Stop, Request})
    BY <1>1, <1>e DEF Enter
  <2>3. QED
    BY <1>1, <2>1, <2>2 DEF Enter, StartThread
<1>2. CASE Opened
  BY <1>2 DEF Opened
<1>3. CASE OpenFailed
  BY <1>3, <1>a DEF OpenFailed, Close
<1>4. CASE Call
  <2>1. queue' \in Seq({Stop, Request})
    BY <1>4, <1>a, Items DEF Call
  <2>2. pc' \in {"open", "calling"} /\ attempt' \in 0..CallAttempts /\ reads' \in 0..MaxReads
    BY <1>4 DEF Call, ProtocolInv
  <2>3. QED
    BY <1>4, <2>1, <2>2 DEF Call
<1>5. CASE Answered
  BY <1>5 DEF Answered, ProtocolInv
<1>6. CASE Retry
  BY <1>6, <1>a DEF Retry, Close
<1>7. CASE Leave
  BY <1>7, <1>a DEF Leave, Close
<1>8. CASE Join
  <2>1. queue' \in Seq({Stop, Request})
    BY <1>8, <1>e DEF Join
  <2>2. opening' \in 0..OpenAttempts /\ attempt' \in 0..CallAttempts
    BY <1>8 DEF Join, ProtocolInv
  <2>3. QED
    BY <1>8, <2>1, <2>2 DEF Join, StartThread
<1>9. CASE Thread
  <2>1. CASE Connect \/ Serve
    BY <2>1 DEF Connect, Serve
  <2>2. CASE FailToConnect
    BY <2>2 DEF FailToConnect
  <2>3. CASE TakeRequest \/ TakeStop \/ Drain
    BY <2>3, <1>h DEF TakeRequest, TakeStop, Drain
  <2>4. QED
    BY <1>9, <2>1, <2>2, <2>3 DEF Thread
<1>10. CASE Break
  BY <1>10 DEF Break
<1>11. CASE UNCHANGED vars
  BY <1>11 DEF vars
<1>12. QED
  BY <1>1, <1>2, <1>3, <1>4, <1>5, <1>6, <1>7, <1>8, <1>9, <1>10, <1>11
     DEF Next, Caller, Proceed

-----------------------------------------------------------------------------
(* The protocol between the caller and the thread. *)

LEMMA ProtocolStep == TypeOK /\ ProtocolInv /\ [Next]_vars => ProtocolInv'
<1> SUFFICES ASSUME TypeOK, ProtocolInv, [Next]_vars PROVE ProtocolInv'
  OBVIOUS
<1> USE Constants DEF TypeOK, ProtocolInv, caller, session, faults
<1>1. CASE Enter
  BY <1>1 DEF Enter, StartThread
<1>2. CASE Opened
  BY <1>2 DEF Opened
<1>3. CASE OpenFailed
  BY <1>3 DEF OpenFailed, Close
<1>4. CASE Call
  <2>1. CASE thread = "none"
    BY <1>4, <2>1 DEF Call
  <2>2. CASE thread # "none"
    <3>1. /\ pc' = "calling" /\ attempt' = attempt + 1 /\ reads < MaxReads
          /\ UNCHANGED <<reads, thread, after, opening>>
      BY <1>4, <2>2 DEF Call
    <3>2. attempt' > 0
      BY <3>1
    <3>3. opening' > 0
      BY <1>4, <3>1 DEF Call
    <3>4. QED
      BY <2>2, <3>1, <3>2, <3>3
  <2>3. QED
    BY <2>1, <2>2
<1>5. CASE Answered
  BY <1>5 DEF Answered
<1>6. CASE Retry
  BY <1>6 DEF Retry, Close
<1>7. CASE Leave
  BY <1>7 DEF Leave, Close
<1>8. CASE Join
  BY <1>8 DEF Join, StartThread
<1>9. CASE Thread
  BY <1>9 DEF Thread, Connect, FailToConnect, TakeRequest, TakeStop, Serve, Drain
<1>10. CASE Break
  BY <1>10 DEF Break
<1>11. CASE UNCHANGED vars
  BY <1>11 DEF vars
<1>12. QED
  BY <1>1, <1>2, <1>3, <1>4, <1>5, <1>6, <1>7, <1>8, <1>9, <1>10, <1>11
     DEF Next, Caller, Proceed

LEMMA StopStep == TypeOK /\ StopIsThere /\ [Next]_vars => StopIsThere'
<1> SUFFICES ASSUME TypeOK, StopIsThere, [Next]_vars PROVE StopIsThere'
  OBVIOUS
<1> USE DEF StopIsThere, caller, session, faults
<1>q. queue \in Seq({Stop, Request})
  BY DEF TypeOK
<1>1. CASE Enter \/ Opened \/ Call \/ Answered \/ Join
  BY <1>1 DEF Enter, StartThread, Opened, Call, Answered, Join
<1>2. CASE OpenFailed \/ Retry \/ Leave
  <2>1. pc' # "joining" \/ queue' = Append(queue, Stop)
    BY <1>2 DEF OpenFailed, Retry, Leave, Close
  <2>2. QED
    BY <1>q, <2>1, AppendFinds, Items
<1>3. CASE TakeRequest
  BY <1>q, <1>3, TailKeeps, Items DEF TakeRequest
<1>4. CASE Connect \/ FailToConnect \/ TakeStop \/ Serve \/ Drain \/ Break
  BY <1>4 DEF Connect, FailToConnect, TakeStop, Serve, Drain, Break
<1>5. CASE UNCHANGED vars
  BY <1>5 DEF vars
<1>6. QED
  BY <1>1, <1>2, <1>3, <1>4, <1>5 DEF Next, Caller, Proceed, Thread

LEMMA FreshStep == TypeOK /\ ProtocolInv /\ FreshQueue /\ [Next]_vars => FreshQueue'
<1> SUFFICES ASSUME TypeOK, ProtocolInv, FreshQueue, [Next]_vars PROVE FreshQueue'
  OBVIOUS
<1> USE DEF FreshQueue, Waiting, caller, session, faults
<1>1. CASE Enter
  BY <1>1 DEF Enter, StartThread
<1>2. CASE Opened
  BY <1>2 DEF Opened
<1>3. CASE OpenFailed \/ Retry \/ Leave
  BY <1>3 DEF OpenFailed, Retry, Leave, Close, ProtocolInv
<1>4. CASE Call
  <2>1. CASE thread = "none"
    BY <1>4, <2>1 DEF Call
  <2>2. CASE thread # "none"
    <3>1. /\ pc = "open" /\ queue' = Append(queue, Request) /\ pc' = "calling" /\ future' = "pending"
          /\ UNCHANGED <<opening, thread>>
      BY <1>4, <2>2 DEF Call
    <3>2. Append(<<>>, Request) = <<Request>>
      OBVIOUS
    <3>3. QED
      BY <3>1, <3>2
  <2>3. QED
    BY <2>1, <2>2
<1>5. CASE Answered
  BY <1>5 DEF Answered
<1>6. CASE Join
  <2>1. CASE after = "again"
    <3>1. opening' = opening + 1 /\ opening > 0
      BY <1>6, <2>1 DEF Join, ProtocolInv
    <3>2. opening' # 1
      BY <3>1 DEF TypeOK
    <3>3. QED
      BY <3>2
  <2>2. CASE after # "again"
    BY <1>6, <2>2 DEF Join, StartThread
  <2>3. QED
    BY <2>1, <2>2
<1>7. CASE TakeRequest
  BY <1>7 DEF TakeRequest
<1>8. CASE Connect \/ FailToConnect \/ TakeStop \/ Serve \/ Drain \/ Break
  BY <1>8 DEF Connect, FailToConnect, TakeStop, Serve, Drain, Break
<1>9. CASE UNCHANGED vars
  BY <1>9 DEF vars
<1>10. QED
  BY <1>1, <1>2, <1>3, <1>4, <1>5, <1>6, <1>7, <1>8, <1>9 DEF Next, Caller, Proceed, Thread

-----------------------------------------------------------------------------
(* Theorems. *)

LEMMA InvInit == Init => IInv
<1> SUFFICES ASSUME Init PROVE IInv
  OBVIOUS
<1>1. TypeOK
  <2>1. <<>> \in Seq({Stop, Request})
    OBVIOUS
  <2>2. /\ 0 \in 0..OpenAttempts /\ 0 \in 0..CallAttempts
        /\ 0 \in 0..MaxReads /\ 0 \in 0..MaxOpenFailures /\ 0 \in 0..MaxBreaks
    BY Constants
  <2>3. QED
    BY <2>1, <2>2 DEF Init, TypeOK
<1>2. ProtocolInv
  BY Constants DEF Init, ProtocolInv
<1>3. StopIsThere /\ FreshQueue
  BY DEF Init, StopIsThere, FreshQueue
<1>4. QED
  BY <1>1, <1>2, <1>3 DEF IInv

LEMMA InvStep == IInv /\ [Next]_vars => IInv'
BY TypeStep, ProtocolStep, StopStep, FreshStep DEF IInv

\* The inductive invariant holds throughout, however often connections fail to
\* open or break.
THEOREM Invariant == Spec => []IInv
<1>1. QED
  BY InvInit, InvStep, PTL DEF Spec

\* TypeOK: the two retry loops of _call_mcp_read_tool and __enter__ never run
\* more often than their attempts allow.
THEOREM TypeCorrect == Spec => []TypeOK
<1>1. IInv => TypeOK
  BY DEF IInv
<1>2. QED
  BY <1>1, Invariant, PTL

\* OneThread: __enter__ and _reopen_session never start a thread while an
\* earlier one of the session may still read the queue.
THEOREM NoSecondThread == Spec => OneThread
<1> DEFINE Started == thread' = "opening" /\ thread # "opening" => thread \in {"none", "ended"}
<1>1. ASSUME IInv, Next PROVE Started
  <2>1. CASE Enter
    BY <1>1, <2>1 DEF Enter, IInv, ProtocolInv
  <2>2. CASE Join
    BY <2>2 DEF Join
  <2>3. CASE Opened \/ OpenFailed \/ Answered \/ Retry \/ Call \/ Leave
    BY <2>3 DEF Opened, OpenFailed, Answered, Retry, Call, Leave, session
  <2>4. CASE Thread \/ Break
    BY <2>4 DEF Thread, Connect, FailToConnect, TakeRequest, TakeStop, Serve, Drain, Break
  <2>5. QED
    BY <1>1, <2>1, <2>2, <2>3, <2>4 DEF Next, Caller, Proceed
<1>2. ASSUME IInv, [Next]_vars PROVE [Started]_vars
  BY <1>1, <1>2
<1>3. QED
  BY <1>2, Invariant, PTL DEF Spec, OneThread

\* The safety half of CloseReturns: close() never waits for a thread that has
\* nothing to end it.  The thread has ended, or takes one of the queue's items
\* and one of them is a None.
THEOREM StopIsNeverLost == Spec => []StopIsThere
<1>1. IInv => StopIsThere
  BY DEF IInv
<1>2. QED
  BY <1>1, Invariant, PTL

\* A read that waits is answered, being served or about to be, unless the
\* connection is gone.
Held ==
  pc = "calling" /\ opening = 1 /\ thread \notin {"draining", "ended"} =>
    \/ future # "pending"
    \/ thread = "executing"
    \/ thread \in {"opening", "serving"} /\ Head(queue) = Request

\* The safety half of CallsReturnOnFreshSessions: no None is in front of a
\* request of a session that opened at its first attempt, and no request gets
\* lost in its queue.
THEOREM FreshCallsAreHeld == Spec => []Held
<1>1. IInv => Held
  <2> SUFFICES ASSUME IInv, pc = "calling", opening = 1, thread \notin {"draining", "ended"},
                      future = "pending", thread # "executing"
               PROVE  thread \in {"opening", "serving"} /\ Head(queue) = Request
    BY DEF Held
  <2>1. thread \in {"opening", "serving"}
    BY DEF IInv, TypeOK, ProtocolInv
  <2>2. queue = <<Request>>
    BY <2>1 DEF IInv, FreshQueue, Waiting
  <2>3. QED
    BY <2>1, <2>2
<1>2. QED
  BY <1>1, Invariant, PTL

=============================================================================
