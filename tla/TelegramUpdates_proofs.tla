------------------------ MODULE TelegramUpdates_proofs ------------------------
(***************************************************************************)
(* Proofs about TelegramUpdates, for any number of threads, updates,       *)
(* accounts, chunks, chats, deliveries, failures and restarts.             *)
(***************************************************************************)
EXTENDS TelegramUpdates, TLAPS

(***************************************************************************)
(* The inductive invariant.  A thread that holds a claim holds it alone,   *)
(* and no claim is without a thread unless the thread was cancelled;       *)
(* the id of a chat is never given out again, so that a thread's chat is   *)
(* its user's or gone for good; what a thread has stored stays stored, or  *)
(* its chat is gone; and an update whose answers outnumber the mishaps is  *)
(* completed, or at its completion.                                        *)
(***************************************************************************)
Working == Busy \ {"claim"}
InChat == {"remember", "check", "insert", "run", "checkA", "insertA", "send"}

ClaimsInv ==
  /\ \A w \in Workers : pc[w] \in Working => upd[w] \in inflight /\ upd[w] \notin processed
  /\ \A v, w \in Workers : pc[v] \in Working /\ pc[w] \in Working /\ upd[v] = upd[w] => v = w
  /\ ClaimsAreHeld

ChatInv(w) ==
  /\ chat[w] <= created
  /\ pc[w] \in {"idle", "claim", "resolve", "coverage", "reply"} => chat[w] = NoChat
  /\ pc[w] \in InChat => chat[w] # NoChat
  /\ pc[w] \in InChat \union {"verify", "latest", "create"} => user[w] # NoUser
  /\ pc[w] \in InChat => owner[chat[w]] \in {user[w], NoUser}

ChatsInv ==
  /\ active <= created
  /\ \A c \in ChatIds : c > created => owner[c] = NoUser
  /\ \A w \in Workers : ChatInv(w)

SendingInv ==
  \A w \in Workers : pc[w] \notin {"complete", "failed", "notice"} => sent[w] < Chunks

Stored(w, role) ==
  [chat |-> chat[w], role |-> role, upd |-> upd[w], user |-> user[w]] \in messages

StoredBy(w) ==
  /\ pc[w] \in {"run", "checkA", "insertA"} => owner[chat[w]] = NoUser \/ Stored(w, "user")
  /\ pc[w] \in {"send", "complete"} /\ chat[w] # NoChat =>
       owner[chat[w]] = NoUser \/ Stored(w, "assistant")

StoredInv ==
  /\ \A w \in Workers : StoredBy(w)
  /\ OwnChatsOnly
  /\ AnswerUnderQuestion

DeliveredInv ==
  \A u \in Updates :
    /\ delivered[u] <= 1 + mishaps
    /\ delivered[u] > mishaps => u \in processed \/ \E w \in Workers : At(w, "complete") /\ upd[w] = u

IInv == TypeOK /\ ClaimsInv /\ ChatsInv /\ SendingInv /\ StoredInv /\ DeliveredInv

Step(w) == Thread(w) \/ \E u \in Updates : Deliver(w, u)

-----------------------------------------------------------------------------
(* Types. *)

LEMMA Constants ==
  /\ MaxChats \in Nat /\ MaxDeliveries \in Nat /\ MaxDisturbances \in Nat
  /\ Chunks \in Nat \ {0} /\ NoUser \notin Users
  /\ NoChat \notin ChatIds /\ NoChat = 0 /\ ChatIds = 1..MaxChats
BY PipelineConstants DEF ChatIds, NoChat

LEMMA EndTyped ==
  ASSUME TypeOK, NEW w \in Workers, End(w)
  PROVE  /\ pc' \in [Workers -> Busy \union Failing \union {"idle"}]
         /\ upd' \in [Workers -> Updates]
         /\ user' \in [Workers -> Users \union {NoUser}]
         /\ chat' \in [Workers -> ChatIds \union {NoChat}]
         /\ isNew' \in [Workers -> BOOLEAN]
         /\ sent' \in [Workers -> 0..Chunks]
BY Constants DEF TypeOK, End, Goto

LEMMA DisturbTyped ==
  ASSUME TypeOK, Disturb
  PROVE  deliveries' \in Nat /\ disturbances' \in Nat
BY DEF TypeOK, Disturb

LEMMA MishapTyped ==
  ASSUME TypeOK, Mishap
  PROVE  deliveries' \in Nat /\ disturbances' \in Nat /\ mishaps' \in Nat /\ mishaps' = mishaps + 1
BY DEF TypeOK, Disturb, Mishap

LEMMA TypeInit == Init => TypeOK
<1> SUFFICES ASSUME Init PROVE TypeOK
  OBVIOUS
<1>1. upd \in [Workers -> Updates]
  BY PipelineConstants DEF Init
<1>2. QED
  BY <1>1, Constants DEF Init, TypeOK

\* All threads but one keep their locals in a step.
LEMMA OthersKeep ==
  ASSUME TypeOK, NEW w \in Workers, Step(w), NEW v \in Workers \ {w}
  PROVE  /\ pc'[v] = pc[v] /\ upd'[v] = upd[v] /\ user'[v] = user[v]
         /\ chat'[v] = chat[v] /\ isNew'[v] = isNew[v] /\ sent'[v] = sent[v]
<1> USE DEF TypeOK, Goto, End
<1>1. CASE Thread(w)
  <2>1. CASE Claim(w) \/ Duplicate(w) \/ Resolve(w)
    BY <2>1 DEF Claim, Duplicate, Resolve
  <2>2. CASE VerifyActive(w) \/ FindLatest(w) \/ CreateChat(w) \/ RememberChat(w)
    BY <2>2 DEF VerifyActive, FindLatest, CreateChat, RememberChat
  <2>3. CASE CheckQuestion(w) \/ InsertQuestion(w) \/ CheckAnswer(w) \/ InsertAnswer(w)
    BY <2>3 DEF CheckQuestion, InsertQuestion, CheckAnswer, InsertAnswer, Insert
  <2>4. CASE SendChunk(w) \/ SendUnconfirmed(w) \/ Reply(w) \/ Complete(w)
    BY <2>4 DEF SendChunk, SendUnconfirmed, Reply, Complete
  <2>5. CASE Fail(w) \/ LookUpFailureUser(w) \/ DieSilently(w) \/ Notify(w)
    BY <2>5 DEF Fail, LookUpFailureUser, DieSilently, Notify
  <2>6. CASE RunAgent(w) \/ SuggestDevices(w) \/ Cancelled(w)
    BY <2>6 DEF RunAgent, SuggestDevices, Cancelled
  <2>7. QED
    BY <1>1, <2>1, <2>2, <2>3, <2>4, <2>5, <2>6 DEF Thread
<1>3. CASE \E u \in Updates : Deliver(w, u)
  BY <1>3 DEF Deliver
<1>4. QED
  BY <1>1, <1>3 DEF Step

LEMMA TypeStep == TypeOK /\ ChatsInv /\ SendingInv /\ [Next]_vars => TypeOK'
<1> SUFFICES ASSUME TypeOK, ChatsInv, SendingInv, [Next]_vars PROVE TypeOK'
  OBVIOUS
<1> USE DEF TypeOK, Goto, memory, database, locals, history, budget
<1>1. ASSUME NEW w \in Workers, NEW u \in Updates, Deliver(w, u) PROVE TypeOK'
  BY <1>1 DEF Deliver, Busy
<1>2. ASSUME NEW w \in Workers, Claim(w) PROVE TypeOK'
  BY <1>2 DEF Claim, Busy
<1>3. ASSUME NEW w \in Workers, Duplicate(w) PROVE TypeOK'
  BY <1>3, EndTyped DEF Duplicate
<1>4. ASSUME NEW w \in Workers, Resolve(w) PROVE TypeOK'
  BY <1>4 DEF Resolve, Busy
<1>5. ASSUME NEW w \in Workers, VerifyActive(w) PROVE TypeOK'
  BY <1>5 DEF VerifyActive, Busy
<1>6. ASSUME NEW w \in Workers, FindLatest(w) PROVE TypeOK'
  BY <1>6 DEF FindLatest, Busy
<1>7. ASSUME NEW w \in Workers, CreateChat(w) PROVE TypeOK'
  <2>1. created' \in 0..MaxChats /\ created' \in ChatIds
    BY <1>7, Constants DEF CreateChat
  <2>2. QED
    BY <1>7, <2>1 DEF CreateChat, Busy
<1>8. ASSUME NEW w \in Workers, RememberChat(w) PROVE TypeOK'
  BY <1>8 DEF RememberChat, Busy
<1>9. ASSUME NEW w \in Workers, CheckQuestion(w) PROVE TypeOK'
  BY <1>9 DEF CheckQuestion, Busy
<1>10. ASSUME NEW w \in Workers, NEW role \in {"user", "assistant"}, NEW next \in {"run", "send"},
              pc[w] \in {"insert", "insertA"}, Insert(w, role, next)
       PROVE  TypeOK'
  <2> DEFINE m == [chat |-> chat[w], role |-> role, upd |-> upd[w], user |-> user[w]]
  <2>1. chat[w] \in ChatIds /\ user[w] \in Users
    BY <1>10 DEF ChatsInv, ChatInv, InChat
  <2>2. m \in Message
    BY <2>1 DEF Message
  <2>3. messages' = messages \union {m}
    BY <1>10 DEF Insert
  <2> HIDE DEF m
  <2>4. messages' \in SUBSET Message
    BY <2>2, <2>3
  <2>5. pc' \in [Workers -> Busy \union Failing \union {"idle"}]
    BY <1>10 DEF Insert, Busy
  <2>6. QED
    BY <1>10, <2>4, <2>5 DEF Insert
<1>11. ASSUME NEW w \in Workers, InsertQuestion(w) \/ InsertAnswer(w) PROVE TypeOK'
  BY <1>10, <1>11 DEF InsertQuestion, InsertAnswer, At
<1>12. ASSUME NEW w \in Workers, CheckAnswer(w) PROVE TypeOK'
  BY <1>12 DEF CheckAnswer, Busy
<1>14. ASSUME NEW w \in Workers, SendChunk(w) PROVE TypeOK'
  <2>1. sent[w] < Chunks /\ sent[w] \in Nat
    <3>1. pc[w] = "send"
      BY <1>14 DEF SendChunk, At
    <3>2. sent[w] \in 0..Chunks
      OBVIOUS
    <3>3. sent[w] < Chunks
      BY <3>1 DEF SendingInv
    <3>4. QED
      BY <3>2, <3>3, Constants
  <2>2. sent' \in [Workers -> 0..Chunks]
    BY <1>14, <2>1, Constants DEF SendChunk
  <2>3. QED
    BY <1>14, <2>2 DEF SendChunk, Busy
<1>15. ASSUME NEW w \in Workers, SendUnconfirmed(w) PROVE TypeOK'
  BY <1>15, MishapTyped DEF SendUnconfirmed, Failing
<1>16. ASSUME NEW w \in Workers, Reply(w) PROVE TypeOK'
  BY <1>16 DEF Reply, Busy
<1>17. ASSUME NEW w \in Workers, Complete(w) PROVE TypeOK'
  BY <1>17, EndTyped DEF Complete
<1>18. ASSUME NEW w \in Workers, Fail(w) PROVE TypeOK'
  BY <1>18, MishapTyped DEF Fail, Failing
<1>19. ASSUME NEW w \in Workers, LookUpFailureUser(w) PROVE TypeOK'
  BY <1>19 DEF LookUpFailureUser, Failing
<1>20. ASSUME NEW w \in Workers, DieSilently(w) PROVE TypeOK'
  BY <1>20, EndTyped, MishapTyped DEF DieSilently
<1>21. ASSUME NEW w \in Workers, Notify(w) PROVE TypeOK'
  BY <1>21, EndTyped DEF Notify
<1>22. ASSUME NEW w \in Workers, RunAgent(w) PROVE TypeOK'
  BY <1>22 DEF RunAgent, Busy
<1>28. ASSUME NEW w \in Workers, SuggestDevices(w) PROVE TypeOK'
  BY <1>28 DEF SuggestDevices, Busy
<1>29. ASSUME NEW w \in Workers, Cancelled(w) PROVE TypeOK'
  BY <1>29, EndTyped, MishapTyped DEF Cancelled
<1>23. ASSUME NEW u \in Users \union {NoUser}, Relink(u) PROVE TypeOK'
  BY <1>23, DisturbTyped DEF Relink
<1>24. ASSUME NEW c \in ChatIds, DeleteChat(c) PROVE TypeOK'
  BY <1>24, DisturbTyped DEF DeleteChat
<1>25. ASSUME Restart PROVE TypeOK'
  BY <1>25, MishapTyped, Constants DEF Restart
<1>26. CASE UNCHANGED vars
  BY <1>26 DEF vars
<1>27. QED
  BY <1>1, <1>2, <1>3, <1>4, <1>5, <1>6, <1>7, <1>8, <1>9, <1>11, <1>12, <1>14, <1>15,
     <1>16, <1>17, <1>18, <1>19, <1>20, <1>21, <1>22, <1>23, <1>24, <1>25, <1>26,
     <1>28, <1>29
     DEF Next, Environment, Thread

-----------------------------------------------------------------------------
(* Claims. *)

\* What a step of a thread does to its claim: nothing, take it, give it up, or
\* leave it behind.
Keeps(w) ==
  /\ pc[w] \in Working <=> pc'[w] \in Working
  /\ pc[w] \in Working => upd'[w] = upd[w]
  /\ UNCHANGED <<inflight, processed, cancelled>>

Loses(w) ==
  /\ pc'[w] \notin Working
  /\ cancelled' = cancelled \union {upd[w]}
  /\ UNCHANGED <<inflight, processed>>

Takes(w) ==
  /\ pc[w] = "claim" /\ pc'[w] \in Working
  /\ upd'[w] = upd[w] /\ upd[w] \notin inflight \union processed
  /\ inflight' = inflight \union {upd[w]}
  /\ UNCHANGED <<processed, cancelled>>

GivesUp(w) ==
  /\ pc[w] \in Working /\ pc'[w] \notin Working
  /\ inflight' = inflight \ {upd[w]}
  /\ processed' \in {processed, processed \union {upd[w]}}
  /\ UNCHANGED cancelled

LEMMA ClaimMoves ==
  ASSUME TypeOK, NEW w \in Workers, Step(w)
  PROVE  Keeps(w) \/ Takes(w) \/ GivesUp(w) \/ Loses(w)
<1>t. /\ pc \in [Workers -> Busy \union Failing \union {"idle"}]
      /\ upd \in [Workers -> Updates]
  BY DEF TypeOK
<1> USE <1>t DEF At, Goto, memory, locals, history, Working, Busy, Failing
<1>1. CASE Claim(w)
  BY <1>1 DEF Claim, Takes
<1>2. CASE Duplicate(w)
  BY <1>2 DEF Duplicate, End, Keeps
<1>3. CASE Resolve(w)
  BY <1>3 DEF Resolve, Keeps
<1>4. CASE VerifyActive(w) \/ FindLatest(w) \/ CheckQuestion(w) \/ CheckAnswer(w)
  BY <1>4 DEF VerifyActive, FindLatest, CheckQuestion, CheckAnswer, Keeps
<1>5. CASE CreateChat(w) \/ RememberChat(w) \/ RunAgent(w) \/ Reply(w) \/ SuggestDevices(w)
  BY <1>5 DEF CreateChat, RememberChat, RunAgent, Reply, SuggestDevices, Keeps
<1>6. CASE InsertQuestion(w) \/ InsertAnswer(w)
  BY <1>6 DEF InsertQuestion, InsertAnswer, Insert, Keeps
<1>7. CASE SendChunk(w)
  BY <1>7 DEF SendChunk, Keeps
<1>8. CASE SendUnconfirmed(w)
  BY <1>8 DEF SendUnconfirmed, GivesUp
<1>9. CASE Complete(w)
  BY <1>9 DEF Complete, End, GivesUp
<1>10. CASE Fail(w)
  BY <1>10 DEF Fail, GivesUp
<1>11. CASE LookUpFailureUser(w)
  BY <1>11 DEF LookUpFailureUser, Keeps
<1>12. CASE DieSilently(w) \/ Notify(w)
  BY <1>12 DEF DieSilently, Notify, End, Keeps
<1>13. CASE \E u \in Updates : Deliver(w, u)
  BY <1>13 DEF Deliver, Keeps
<1>14. CASE Cancelled(w)
  BY <1>14 DEF Cancelled, End, Loses
<1>15. QED
  BY <1>1, <1>2, <1>3, <1>4, <1>5, <1>6, <1>7, <1>8, <1>9, <1>10, <1>11, <1>12, <1>13, <1>14
     DEF Step, Thread

LEMMA ClaimsStep == TypeOK /\ ClaimsInv /\ [Next]_vars => ClaimsInv'
<1> SUFFICES ASSUME TypeOK, ClaimsInv, [Next]_vars PROVE ClaimsInv'
  OBVIOUS
<1>1. ASSUME NEW w \in Workers, Step(w)
      PROVE  ClaimsInv'
  <2>1. \A v \in Workers \ {w} : pc'[v] = pc[v] /\ upd'[v] = upd[v]
    BY <1>1, OthersKeep
  <2>2. CASE Keeps(w)
    BY <2>1, <2>2 DEF Keeps, ClaimsInv, ClaimsAreHeld, Working
  <2>3. CASE Takes(w)
    BY <2>1, <2>3 DEF Takes, ClaimsInv, ClaimsAreHeld, Working
  <2>4. CASE GivesUp(w)
    BY <2>1, <2>4 DEF GivesUp, ClaimsInv, ClaimsAreHeld, Working
  <2>5. CASE Loses(w)
    BY <2>1, <2>5 DEF Loses, ClaimsInv, ClaimsAreHeld, Working
  <2>6. QED
    BY <1>1, <2>2, <2>3, <2>4, <2>5, ClaimMoves
<1>2. ASSUME UNCHANGED <<inflight, processed, cancelled, pc, upd>>
      PROVE  ClaimsInv'
  BY <1>2 DEF ClaimsInv, ClaimsAreHeld
<1>3. ASSUME Restart
      PROVE  ClaimsInv'
  BY <1>3 DEF Restart, ClaimsInv, ClaimsAreHeld, Working, Busy
<1>4. ASSUME (\E u \in Users \union {NoUser} : Relink(u)) \/ \E c \in ChatIds : DeleteChat(c)
      PROVE  UNCHANGED <<inflight, processed, cancelled, pc, upd>>
  BY <1>4 DEF Relink, DeleteChat, memory, locals, history
<1>5. CASE UNCHANGED vars
  BY <1>2, <1>5 DEF vars, memory, locals, history
<1>6. QED
  BY <1>1, <1>2, <1>3, <1>4, <1>5 DEF Next, Environment, Step

LEMMA SendingStep == TypeOK /\ SendingInv /\ [Next]_vars => SendingInv'
<1> SUFFICES ASSUME TypeOK, SendingInv, [Next]_vars PROVE SendingInv'
  OBVIOUS
<1> DEFINE Sending(w) == pc[w] \notin {"complete", "failed", "notice"} => sent[w] < Chunks
<1>1. ASSUME NEW w \in Workers, Step(w)
      PROVE  SendingInv'
  <2>1. /\ pc \in [Workers -> Busy \union Failing \union {"idle"}]
        /\ sent \in [Workers -> 0..Chunks]
        /\ Sending(w)
        /\ Chunks \in Nat /\ 0 < Chunks
    BY Constants DEF TypeOK, SendingInv
  <2>2. ASSUME End(w) PROVE Sending(w)'
    BY <2>1, <2>2 DEF End
  <2>3. ASSUME Duplicate(w) \/ Complete(w) \/ DieSilently(w) \/ Notify(w) \/ Cancelled(w) PROVE Sending(w)'
    BY <2>2, <2>3 DEF Duplicate, Complete, DieSilently, Notify, Cancelled
  <2>4. ASSUME SendChunk(w) PROVE Sending(w)'
    BY <2>1, <2>4 DEF SendChunk, At, Goto
  <2>5. ASSUME SendUnconfirmed(w) \/ Fail(w) \/ LookUpFailureUser(w) PROVE Sending(w)'
    BY <2>1, <2>5 DEF SendUnconfirmed, Fail, LookUpFailureUser, Goto
  <2>6. ASSUME Claim(w) \/ Resolve(w) \/ VerifyActive(w) \/ FindLatest(w) \/ CreateChat(w) PROVE Sending(w)'
    BY <2>1, <2>6 DEF Claim, Resolve, VerifyActive, FindLatest, CreateChat, At, Goto
  <2>7. ASSUME RememberChat(w) \/ CheckQuestion(w) \/ InsertQuestion(w) \/ CheckAnswer(w) \/ InsertAnswer(w) PROVE Sending(w)'
    BY <2>1, <2>7 DEF RememberChat, CheckQuestion, InsertQuestion, CheckAnswer, InsertAnswer,
                      Insert, At, Goto
  <2>8. ASSUME Reply(w) \/ RunAgent(w) \/ SuggestDevices(w) \/ \E u \in Updates : Deliver(w, u) PROVE Sending(w)'
    BY <2>1, <2>8 DEF Reply, RunAgent, SuggestDevices, Deliver, At, Goto
  <2>9. Sending(w)'
    BY <1>1, <2>3, <2>4, <2>5, <2>6, <2>7, <2>8 DEF Step, Thread
  <2>10. ASSUME NEW v \in Workers \ {w} PROVE Sending(v)'
    BY <1>1, OthersKeep DEF SendingInv
  <2>11. QED
    BY <2>9, <2>10 DEF SendingInv
<1>2. ASSUME UNCHANGED <<pc, sent>>
      PROVE  SendingInv'
  BY <1>2 DEF SendingInv
<1>3. ASSUME Restart
      PROVE  SendingInv'
  BY <1>3, Constants DEF Restart, SendingInv
<1>4. ASSUME (\E u \in Users \union {NoUser} : Relink(u)) \/ \E c \in ChatIds : DeleteChat(c)
      PROVE  UNCHANGED <<pc, sent>>
  BY <1>4 DEF Relink, DeleteChat, locals
<1>5. CASE UNCHANGED vars
  BY <1>2, <1>5 DEF vars, locals
<1>6. QED
  BY <1>1, <1>2, <1>3, <1>4, <1>5 DEF Next, Environment, Step

-----------------------------------------------------------------------------
(* Chats. *)

\* A chat that was given out keeps its owner or loses it for good.
OwnersKeep ==
  /\ created' \in Nat /\ created' >= created
  /\ \A c \in 1..created : owner'[c] \in {owner[c], NoUser}

LEMMA ChatKept ==
  ASSUME TypeOK, NEW w \in Workers, ChatInv(w), OwnersKeep,
         pc'[w] = pc[w], chat'[w] = chat[w], user'[w] = user[w]
  PROVE  ChatInv(w)'
<1>1. chat[w] \in 0..MaxChats /\ created \in Nat /\ created' \in Nat /\ created' >= created
  BY Constants DEF TypeOK, OwnersKeep
<1>2. chat[w] # NoChat => chat[w] \in 1..created
  BY <1>1, Constants DEF ChatInv
<1>3. QED
  BY <1>1, <1>2 DEF ChatInv, OwnersKeep

\* Most actions leave the chats alone, and move their thread within its chat.
LEMMA ChatMoved ==
  ASSUME TypeOK, NEW w \in Workers, ChatInv(w),
         UNCHANGED <<owner, created>>, chat'[w] = chat[w], user'[w] = user[w],
         \/ pc[w] \in InChat /\ pc'[w] \in InChat
         \/ pc'[w] \in {"complete", "failed", "notice"}
         \/ pc[w] \in InChat \union {"verify", "latest"} /\ pc'[w] \in {"latest", "create"}
         \/ /\ pc[w] \in {"idle", "claim", "resolve", "coverage"}
            /\ pc'[w] \in {"claim", "resolve", "coverage", "reply"}
  PROVE  ChatInv(w)'
BY DEF ChatInv, InChat

LEMMA ChatsStep == TypeOK /\ ChatsInv /\ [Next]_vars => ChatsInv'
<1> SUFFICES ASSUME TypeOK, ChatsInv, [Next]_vars PROVE ChatsInv'
  OBVIOUS
<1>t. /\ pc \in [Workers -> Busy \union Failing \union {"idle"}]
      /\ chat \in [Workers -> ChatIds \union {NoChat}]
      /\ user \in [Workers -> Users \union {NoUser}]
      /\ owner \in [ChatIds -> Users \union {NoUser}]
      /\ created \in 0..MaxChats /\ active \in ChatIds \union {NoChat}
      /\ linked \in Users \union {NoUser}
  BY DEF TypeOK
<1>c. created \in Nat /\ active \in Nat /\ \A w \in Workers : chat[w] \in Nat
  BY <1>t, Constants
<1>1. ASSUME NEW w \in Workers, Step(w)
      PROVE  ChatsInv'
  <2> DEFINE Goal == ChatInv(w)' /\ OwnersKeep /\ active' <= created'
                     /\ \A c \in ChatIds : c > created' => owner'[c] = NoUser
  <2>0. ChatInv(w) /\ active <= created /\ \A c \in ChatIds : c > created => owner[c] = NoUser
    BY DEF ChatsInv
  <2>1. ASSUME UNCHANGED <<owner, created, active>>, ChatInv(w)'
        PROVE  Goal
    BY <1>c, <2>0, <2>1 DEF OwnersKeep
  <2>2. ASSUME UNCHANGED <<owner, created, active>>, End(w)
        PROVE  Goal
    <3>1. pc'[w] = "idle" /\ chat'[w] = NoChat
      BY <1>t, <2>2 DEF End, Goto
    <3>2. ChatInv(w)'
      BY <1>c, <2>2, <3>1, Constants DEF ChatInv, InChat
    <3>3. QED
      BY <2>1, <2>2, <3>2
  <2>3. ASSUME Duplicate(w) \/ Complete(w) \/ DieSilently(w) \/ Notify(w) \/ Cancelled(w) PROVE Goal
    BY <2>2, <2>3 DEF Duplicate, Complete, DieSilently, Notify, Cancelled, database, memory
  <2>4. ASSUME \/ Claim(w) \/ (VerifyActive(w) /\ ~Belongs(chat[w], user[w])) \/ CheckQuestion(w)
               \/ RunAgent(w) \/ CheckAnswer(w) \/ Reply(w) \/ SuggestDevices(w)
               \/ \E u \in Updates : Deliver(w, u)
        PROVE  Goal
    <3>1. UNCHANGED <<owner, created, active>> /\ chat'[w] = chat[w] /\ user'[w] = user[w]
      BY <2>4 DEF Claim, VerifyActive, CheckQuestion, RunAgent, CheckAnswer, Reply, Deliver,
                  SuggestDevices, database, memory
    <3>2. \/ pc[w] \in InChat /\ pc'[w] \in InChat
          \/ pc'[w] \in {"complete", "failed", "notice"}
          \/ pc[w] \in InChat \union {"verify", "latest"} /\ pc'[w] \in {"latest", "create"}
          \/ /\ pc[w] \in {"idle", "claim", "resolve", "coverage"}
             /\ pc'[w] \in {"claim", "resolve", "coverage", "reply"}
      BY <1>t, <2>4 DEF Claim, VerifyActive, CheckQuestion, RunAgent, CheckAnswer, Reply, Deliver,
                        SuggestDevices, At, Goto, InChat
    <3>3. ChatInv(w)'
      BY <2>0, <3>1, <3>2, ChatMoved
    <3>4. QED
      BY <2>1, <3>1, <3>3
  <2>5. ASSUME \/ InsertQuestion(w) \/ InsertAnswer(w) \/ SendChunk(w) \/ SendUnconfirmed(w)
               \/ Fail(w) \/ LookUpFailureUser(w)
        PROVE  Goal
    <3>1. UNCHANGED <<owner, created, active>> /\ chat'[w] = chat[w] /\ user'[w] = user[w]
      BY <2>5 DEF InsertQuestion, InsertAnswer, Insert, SendChunk, SendUnconfirmed, Fail,
                  LookUpFailureUser, database, memory
    <3>2. \/ pc[w] \in InChat /\ pc'[w] \in InChat
          \/ pc'[w] \in {"complete", "failed", "notice"}
      BY <1>t, <2>5 DEF InsertQuestion, InsertAnswer, Insert, SendChunk, SendUnconfirmed, Fail,
                        LookUpFailureUser, At, Goto, InChat
    <3>3. ChatInv(w)'
      BY <2>0, <3>1, <3>2, ChatMoved
    <3>4. QED
      BY <2>1, <3>1, <3>3
  <2>6. ASSUME Resolve(w) PROVE Goal
    <3>1. UNCHANGED <<owner, created, active>>
      BY <2>6 DEF Resolve, database, memory
    <3>2. chat[w] = NoChat /\ pc[w] = "resolve"
      BY <2>0, <2>6 DEF Resolve, At, ChatInv
    <3>3. CASE (Goto(w, "reply") \/ Goto(w, "coverage")) /\ UNCHANGED <<user, chat>>
      <4>1. pc'[w] \in {"reply", "coverage"}
        BY <1>t, <3>3 DEF Goto
      <4>2. ChatInv(w)'
        BY <2>0, <3>1, <3>2, <3>3, <4>1, ChatMoved
      <4>3. QED
        BY <2>1, <3>1, <4>2
    <3>4. CASE /\ linked # NoUser /\ user' = [user EXCEPT ![w] = linked]
               /\ IF upd[w] \in Topics
                  THEN Goto(w, "create") /\ UNCHANGED chat
                  ELSE /\ Goto(w, IF active = NoChat THEN "latest" ELSE "verify")
                       /\ chat' = [chat EXCEPT ![w] = active]
      <4>1. user'[w] # NoUser /\ pc'[w] \in {"create", "latest", "verify"} /\ chat'[w] \in {NoChat, active}
        BY <1>t, <3>2, <3>4 DEF Goto
      <4>2. ChatInv(w)'
        BY <1>c, <2>0, <3>1, <4>1, Constants DEF ChatInv, InChat
      <4>3. QED
        BY <2>1, <3>1, <4>2
    <3>5. QED
      BY <2>6, <3>3, <3>4 DEF Resolve
  <2>7. ASSUME VerifyActive(w), Belongs(chat[w], user[w]) PROVE Goal
    <3>1. UNCHANGED <<owner, created, active>> /\ chat'[w] = chat[w] /\ user'[w] = user[w] /\ pc'[w] = "check"
      BY <1>t, <2>7 DEF VerifyActive, database, memory, Goto
    <3>2. ChatInv(w)'
      BY <2>0, <2>7, <3>1 DEF ChatInv, InChat, Belongs
    <3>3. QED
      BY <2>1, <3>1, <3>2
  <2>8. ASSUME FindLatest(w) PROVE Goal
    <3>1. UNCHANGED <<owner, created, active>> /\ user' = user /\ pc[w] = "latest"
      BY <2>8 DEF FindLatest, database, memory, At
    <3>2. PICK c \in {d \in ChatIds : Belongs(d, user[w])} \union {NoChat} :
            /\ chat' = [chat EXCEPT ![w] = c]
            /\ Goto(w, IF c = NoChat THEN "create" ELSE "check")
      BY <2>8 DEF FindLatest
    <3>3. chat'[w] = c /\ pc'[w] = IF c = NoChat THEN "create" ELSE "check"
      BY <1>t, <3>2 DEF Goto
    <3>4. user[w] # NoUser
      BY <2>0, <3>1 DEF ChatInv
    <3>5. CASE c = NoChat
      <4>1. ChatInv(w)'
        BY <1>c, <3>1, <3>3, <3>4, <3>5, Constants DEF ChatInv, InChat
      <4>2. QED
        BY <2>1, <3>1, <4>1
    <3>6. CASE c # NoChat
      <4>1. c \in ChatIds /\ owner[c] = user[w] /\ c \in Nat
        BY <3>2, <3>6, Constants DEF Belongs
      <4>2. c <= created
        BY <1>c, <2>0, <3>4, <4>1
      <4>3. ChatInv(w)'
        BY <3>1, <3>3, <3>4, <3>6, <4>1, <4>2 DEF ChatInv, InChat
      <4>4. QED
        BY <2>1, <3>1, <4>3
    <3>7. QED
      BY <3>5, <3>6
  <2>9. ASSUME CreateChat(w) PROVE Goal
    <3>1. /\ pc[w] = "create" /\ created < MaxChats /\ created' = created + 1
          /\ owner' = [owner EXCEPT ![created'] = user[w]]
          /\ chat' = [chat EXCEPT ![w] = created']
          /\ pc' = [pc EXCEPT ![w] = "remember"]
          /\ UNCHANGED <<user, active>>
      BY <2>9 DEF CreateChat, At, Goto, memory
    <3>2. created' \in ChatIds /\ created' \in Nat /\ created' # NoChat
      BY <1>t, <1>c, <3>1, Constants
    <3>3. chat'[w] = created' /\ pc'[w] = "remember" /\ owner'[created'] = user[w] /\ user[w] # NoUser
      BY <1>t, <2>0, <3>1, <3>2 DEF ChatInv
    <3>4. ChatInv(w)'
      BY <3>1, <3>2, <3>3 DEF ChatInv, InChat
    <3>5. OwnersKeep
      <4>1. ASSUME NEW c \in 1..created PROVE owner'[c] = owner[c]
        BY <1>t, <1>c, <3>1, Constants
      <4>2. QED
        BY <1>c, <3>1, <3>2, <4>1 DEF OwnersKeep
    <3>6. ASSUME NEW c \in ChatIds, c > created' PROVE owner'[c] = NoUser
      BY <1>t, <1>c, <2>0, <3>1, <3>6, Constants
    <3>7. active' <= created'
      BY <1>c, <2>0, <3>1
    <3>8. QED
      BY <3>4, <3>5, <3>6, <3>7
  <2>10. ASSUME RememberChat(w) PROVE Goal
    <3>1. /\ UNCHANGED <<owner, created>> /\ active' = chat[w] /\ chat' = chat /\ user' = user
          /\ pc[w] = "remember" /\ pc'[w] = "check"
      BY <1>t, <2>10 DEF RememberChat, database, At, Goto
    <3>2. ChatInv(w)'
      BY <2>0, <3>1, ChatMoved DEF InChat
    <3>3. active' <= created'
      BY <2>0, <3>1 DEF ChatInv
    <3>4. OwnersKeep
      BY <1>c, <3>1 DEF OwnersKeep
    <3>5. QED
      BY <2>0, <3>1, <3>2, <3>3, <3>4
  <2>11. Goal
    <3> HIDE DEF Goal
    <3>1. CASE VerifyActive(w)
      BY <2>4, <2>7, <3>1
    <3>2. QED
      BY <1>1, <2>3, <2>4, <2>5, <2>6, <2>8, <2>9, <2>10, <3>1 DEF Step, Thread
  <2>12. ASSUME NEW v \in Workers \ {w} PROVE ChatInv(v)'
    BY <1>1, <2>11, OthersKeep, ChatKept DEF ChatsInv
  <2>13. QED
    BY <2>11, <2>12 DEF ChatsInv
<1>2. ASSUME UNCHANGED <<active, owner, created, pc, chat, user>>
      PROVE  ChatsInv'
  BY <1>2 DEF ChatsInv, ChatInv
<1>3. ASSUME Restart
      PROVE  ChatsInv'
  <2>1. /\ active' = NoChat /\ pc' = [w \in Workers |-> "idle"] /\ chat' = [w \in Workers |-> NoChat]
        /\ UNCHANGED <<owner, created>>
    BY <1>3 DEF Restart, database
  <2>2. QED
    BY <1>c, <2>1, Constants DEF ChatsInv, ChatInv, InChat
<1>4. ASSUME NEW c \in ChatIds, DeleteChat(c)
      PROVE  ChatsInv'
  <2>1. owner' = [owner EXCEPT ![c] = NoUser] /\ UNCHANGED <<active, created, pc, chat, user>>
    BY <1>4 DEF DeleteChat, memory, locals
  <2>2. OwnersKeep /\ \A d \in ChatIds : owner'[d] \in {owner[d], NoUser}
    BY <1>t, <1>c, <2>1, Constants DEF OwnersKeep
  <2>3. ASSUME NEW v \in Workers PROVE ChatInv(v)'
    BY <2>1, <2>2, ChatKept DEF ChatsInv
  <2>4. QED
    BY <2>1, <2>2, <2>3 DEF ChatsInv
<1>5. ASSUME NEW u \in Users \union {NoUser}, Relink(u)
      PROVE  ChatsInv'
  BY <1>2, <1>5 DEF Relink, memory, database, locals
<1>6. CASE UNCHANGED vars
  BY <1>2, <1>6 DEF vars, memory, database, locals
<1>7. QED
  BY <1>1, <1>3, <1>4, <1>5, <1>6 DEF Next, Environment, Step

-----------------------------------------------------------------------------
(* Messages. *)

\* A message stays, or its chat is gone.
MessagesKeep ==
  \A m \in messages : m \in messages' \/ (m.chat \in ChatIds /\ owner'[m.chat] = NoUser)

LEMMA StoredKept ==
  ASSUME TypeOK, NEW w \in Workers, ChatInv(w), StoredBy(w), OwnersKeep, MessagesKeep,
         pc'[w] = pc[w], chat'[w] = chat[w], user'[w] = user[w], upd'[w] = upd[w]
  PROVE  StoredBy(w)'
<1>1. chat[w] \in 0..MaxChats /\ created \in Nat
  BY Constants DEF TypeOK
<1>2. chat[w] # NoChat => chat[w] \in 1..created
  BY <1>1, Constants DEF ChatInv
<1>3. ASSUME NEW role \in {"user", "assistant"}, chat[w] # NoChat,
             owner[chat[w]] = NoUser \/ Stored(w, role)
      PROVE  owner'[chat[w]] = NoUser \/ Stored(w, role)'
  <2>1. CASE owner[chat[w]] = NoUser
    BY <1>2, <1>3, <2>1 DEF OwnersKeep
  <2>2. CASE Stored(w, role)
    BY <2>2 DEF Stored, MessagesKeep
  <2>3. QED
    BY <1>3, <2>1, <2>2
<1>4. pc[w] \in {"run", "checkA", "insertA"} => chat[w] # NoChat
  BY DEF ChatInv, InChat
<1>5. QED
  BY <1>3, <1>4 DEF StoredBy

LEMMA StoredStep == TypeOK /\ ChatsInv /\ StoredInv /\ [Next]_vars => StoredInv'
<1> SUFFICES ASSUME TypeOK, ChatsInv, StoredInv, [Next]_vars PROVE StoredInv'
  OBVIOUS
<1>t. /\ pc \in [Workers -> Busy \union Failing \union {"idle"}]
      /\ chat \in [Workers -> ChatIds \union {NoChat}]
      /\ user \in [Workers -> Users \union {NoUser}]
      /\ owner \in [ChatIds -> Users \union {NoUser}]
      /\ created \in Nat /\ created \in 0..MaxChats /\ messages \in SUBSET Message
  BY Constants DEF TypeOK
<1>m. \A m \in messages : /\ m.chat \in ChatIds /\ m.chat \in Nat /\ m.user \in Users /\ m.user # NoUser
                          /\ m.chat <= created
  <2> SUFFICES ASSUME NEW m \in messages
               PROVE  /\ m.chat \in ChatIds /\ m.chat \in Nat /\ m.user \in Users /\ m.user # NoUser
                      /\ m.chat <= created
    OBVIOUS
  <2>1. m \in Message
    BY <1>t
  <2>2. m.chat \in ChatIds /\ m.chat \in Nat /\ m.user \in Users /\ m.user # NoUser
    BY <2>1, Constants DEF Message
  <2>3. owner[m.chat] = m.user
    BY DEF StoredInv, OwnChatsOnly
  <2>4. QED
    BY <1>t, <2>2, <2>3 DEF ChatsInv
<1>o. OwnChatsOnly /\ AnswerUnderQuestion
  BY DEF StoredInv
<1>1. ASSUME NEW w \in Workers, Step(w)
      PROVE  StoredInv'
  <2> DEFINE Goal == StoredBy(w)' /\ OwnersKeep /\ MessagesKeep /\ (OwnChatsOnly /\ AnswerUnderQuestion)'
  <2>0. ChatInv(w) /\ StoredBy(w)
    BY DEF ChatsInv, StoredInv
  <2>1. ASSUME UNCHANGED <<owner, created, messages>>, StoredBy(w)'
        PROVE  Goal
    BY <1>t, <1>o, <2>1 DEF OwnersKeep, MessagesKeep, OwnChatsOnly, AnswerUnderQuestion
  <2>2. ASSUME \/ Claim(w) \/ Resolve(w) \/ VerifyActive(w) \/ FindLatest(w) \/ RememberChat(w)
               \/ SuggestDevices(w) \/ \E u \in Updates : Deliver(w, u)
        PROVE  Goal
    <3>1. UNCHANGED <<owner, created, messages>>
      BY <2>2 DEF Claim, Resolve, VerifyActive, FindLatest, RememberChat, SuggestDevices, Deliver,
                  database
    <3>2. pc'[w] \notin {"run", "checkA", "insertA", "send", "complete"}
      BY <1>t, <2>2 DEF Claim, Resolve, VerifyActive, FindLatest, RememberChat, SuggestDevices,
                        Deliver, Goto
    <3>3. StoredBy(w)'
      BY <3>2 DEF StoredBy
    <3>4. QED
      BY <2>1, <3>1, <3>3
  <2>3. ASSUME \/ Duplicate(w) \/ Complete(w) \/ DieSilently(w) \/ Notify(w)
               \/ SendUnconfirmed(w) \/ Fail(w) \/ LookUpFailureUser(w) \/ Cancelled(w)
        PROVE  Goal
    <3>1. UNCHANGED <<owner, created, messages>>
      BY <2>3 DEF Duplicate, Complete, DieSilently, Notify, SendUnconfirmed, Fail,
                  LookUpFailureUser, Cancelled, database
    <3>2. pc'[w] \in {"idle", "failed", "notice"}
      BY <1>t, <2>3 DEF Duplicate, Complete, DieSilently, Notify, SendUnconfirmed, Fail,
                        LookUpFailureUser, Cancelled, Goto, End
    <3>3. StoredBy(w)'
      BY <3>2 DEF StoredBy
    <3>4. QED
      BY <2>1, <3>1, <3>3
  <2>4. ASSUME \/ CheckQuestion(w) \/ RunAgent(w) \/ CheckAnswer(w) \/ SendChunk(w) \/ Reply(w)
        PROVE  Goal
    <3>1. /\ UNCHANGED <<owner, created, messages>>
          /\ chat'[w] = chat[w] /\ user'[w] = user[w] /\ upd'[w] = upd[w]
      BY <2>4 DEF CheckQuestion, RunAgent, CheckAnswer, SendChunk, Reply, database
    <3>2. ASSUME CheckQuestion(w) PROVE StoredBy(w)'
      <4>1. /\ pc[w] = "check"
            /\ pc'[w] = IF Belongs(chat[w], user[w]) THEN "insert" ELSE IF isNew[w] THEN "run" ELSE "create"
        BY <1>t, <3>2 DEF CheckQuestion, At, Goto
      <4>2. ~Belongs(chat[w], user[w]) => owner[chat[w]] = NoUser
        BY <2>0, <4>1 DEF ChatInv, InChat, Belongs
      <4>3. QED
        BY <3>1, <4>1, <4>2 DEF StoredBy
    <3>3. ASSUME RunAgent(w) PROVE StoredBy(w)'
      <4>1. pc[w] = "run" /\ pc'[w] = "checkA"
        BY <1>t, <3>3 DEF RunAgent, At, Goto
      <4>2. QED
        BY <2>0, <3>1, <4>1 DEF StoredBy, Stored
    <3>4. ASSUME CheckAnswer(w) PROVE StoredBy(w)'
      <4>1. pc[w] = "checkA" /\ pc'[w] = IF Belongs(chat[w], user[w]) THEN "insertA" ELSE "send"
        BY <1>t, <3>4 DEF CheckAnswer, At, Goto
      <4>2. ~Belongs(chat[w], user[w]) => owner[chat[w]] = NoUser
        BY <2>0, <4>1 DEF ChatInv, InChat, Belongs
      <4>3. QED
        BY <2>0, <3>1, <4>1, <4>2 DEF StoredBy, Stored
    <3>5. ASSUME SendChunk(w) PROVE StoredBy(w)'
      <4>1. pc[w] = "send" /\ pc'[w] \in {"send", "complete"}
        BY <1>t, <3>5 DEF SendChunk, At, Goto
      <4>2. QED
        BY <2>0, <3>1, <4>1 DEF StoredBy, Stored
    <3>6. ASSUME Reply(w) PROVE StoredBy(w)'
      <4>1. pc[w] = "reply" /\ pc'[w] = "complete"
        BY <1>t, <3>6 DEF Reply, At, Goto
      <4>2. QED
        BY <2>0, <3>1, <4>1 DEF StoredBy, ChatInv
    <3>7. QED
      BY <2>1, <2>4, <3>1, <3>2, <3>3, <3>4, <3>5, <3>6
  <2>5. ASSUME CreateChat(w) PROVE Goal
    <3>1. /\ created < MaxChats /\ created' = created + 1
          /\ owner' = [owner EXCEPT ![created'] = user[w]]
          /\ pc' = [pc EXCEPT ![w] = "remember"]
          /\ UNCHANGED messages
      BY <2>5 DEF CreateChat, Goto
    <3>2. \A c \in ChatIds : c # created + 1 => owner'[c] = owner[c]
      BY <1>t, <3>1
    <3>3. OwnersKeep
      BY <1>t, <3>1, <3>2, Constants DEF OwnersKeep
    <3>4. \A m \in messages : owner'[m.chat] = owner[m.chat]
      BY <1>t, <1>m, <3>2
    <3>5. (OwnChatsOnly /\ AnswerUnderQuestion)'
      BY <1>o, <3>1, <3>4 DEF OwnChatsOnly, AnswerUnderQuestion
    <3>6. StoredBy(w)'
      BY <1>t, <3>1 DEF StoredBy
    <3>7. QED
      BY <3>1, <3>3, <3>5, <3>6 DEF MessagesKeep
  <2>6. ASSUME NEW role \in {"user", "assistant"}, NEW next \in {"run", "send"}, Insert(w, role, next),
               \/ pc[w] = "insert" /\ role = "user" /\ next = "run"
               \/ pc[w] = "insertA" /\ role = "assistant" /\ next = "send"
        PROVE  Goal
    <3> DEFINE m == [chat |-> chat[w], role |-> role, upd |-> upd[w], user |-> user[w]]
    <3>1. /\ owner[chat[w]] # NoUser /\ messages' = messages \union {m}
          /\ pc'[w] = next /\ chat' = chat /\ user' = user /\ upd' = upd
          /\ UNCHANGED <<owner, created>>
      BY <1>t, <2>6 DEF Insert, Goto
    <3>2. owner[chat[w]] = user[w]
      BY <2>0, <2>6, <3>1 DEF ChatInv, InChat
    <3>3. OwnersKeep /\ MessagesKeep
      BY <1>t, <3>1 DEF OwnersKeep, MessagesKeep
    <3>4. OwnChatsOnly'
      BY <1>o, <3>1, <3>2 DEF OwnChatsOnly
    <3>5. role = "assistant" => [m EXCEPT !.role = "user"] \in messages
      BY <2>0, <2>6, <3>1 DEF StoredBy, Stored
    <3>6. AnswerUnderQuestion'
      <4> HIDE DEF m
      <4>1. m.role = role
        BY DEF m
      <4>2. QED
        BY <1>o, <2>6, <3>1, <3>5, <4>1 DEF AnswerUnderQuestion
    <3>7. StoredBy(w)'
      BY <2>6, <3>1 DEF StoredBy, Stored
    <3>8. QED
      BY <3>3, <3>4, <3>6, <3>7
  <2>7. ASSUME InsertQuestion(w) \/ InsertAnswer(w) PROVE Goal
    BY <2>6, <2>7 DEF InsertQuestion, InsertAnswer, At
  <2>8. Goal
    BY <1>1, <2>2, <2>3, <2>4, <2>5, <2>7 DEF Step, Thread
  <2>9. ASSUME NEW v \in Workers \ {w} PROVE StoredBy(v)'
    BY <1>1, <2>8, OthersKeep, StoredKept DEF ChatsInv, StoredInv
  <2>10. QED
    BY <2>8, <2>9 DEF StoredInv
<1>2. ASSUME UNCHANGED <<owner, messages, pc, chat, user, upd>>
      PROVE  StoredInv'
  BY <1>2 DEF StoredInv, StoredBy, Stored, OwnChatsOnly, AnswerUnderQuestion
<1>3. ASSUME Restart
      PROVE  StoredInv'
  <2>1. pc' = [w \in Workers |-> "idle"] /\ UNCHANGED <<owner, messages>>
    BY <1>3 DEF Restart, database
  <2>2. QED
    BY <2>1 DEF StoredInv, StoredBy, OwnChatsOnly, AnswerUnderQuestion
<1>4. ASSUME NEW c \in ChatIds, DeleteChat(c)
      PROVE  StoredInv'
  <2>1. /\ owner' = [owner EXCEPT ![c] = NoUser] /\ messages' = {m \in messages : m.chat # c}
        /\ UNCHANGED <<created, pc, chat, user, upd>>
    BY <1>4 DEF DeleteChat, locals
  <2>2. OwnersKeep /\ MessagesKeep
    BY <1>t, <1>m, <2>1, Constants DEF OwnersKeep, MessagesKeep
  <2>3. OwnChatsOnly'
    BY <1>t, <1>m, <1>o, <2>1 DEF OwnChatsOnly
  <2>4. AnswerUnderQuestion'
    <3> SUFFICES ASSUME NEW m \in messages', m.role = "assistant"
                 PROVE  [m EXCEPT !.role = "user"] \in messages'
      BY DEF AnswerUnderQuestion
    <3>1. m \in messages /\ m.chat # c /\ m \in Message
      BY <1>t, <2>1
    <3>2. [m EXCEPT !.role = "user"] \in messages
      BY <1>o, <3>1 DEF AnswerUnderQuestion
    <3>3. [m EXCEPT !.role = "user"].chat = m.chat
      BY <3>1 DEF Message
    <3>4. QED
      BY <2>1, <3>1, <3>2, <3>3
  <2>5. ASSUME NEW v \in Workers PROVE StoredBy(v)'
    BY <2>1, <2>2, StoredKept DEF ChatsInv, StoredInv
  <2>6. QED
    BY <2>3, <2>4, <2>5 DEF StoredInv
<1>5. ASSUME NEW u \in Users \union {NoUser}, Relink(u)
      PROVE  StoredInv'
  BY <1>2, <1>5 DEF Relink, database, locals
<1>6. CASE UNCHANGED vars
  BY <1>2, <1>6 DEF vars, database, locals
<1>7. QED
  BY <1>1, <1>3, <1>4, <1>5, <1>6 DEF Next, Environment, Step

-----------------------------------------------------------------------------
(* Deliveries. *)

\* u is completed, or about to be.
Answered(u) == u \in processed \/ \E w \in Workers : At(w, "complete") /\ upd[w] = u

\* Only the two ways to send the last chunk count an answer, only Complete
\* leaves "complete", and no thread lowers the count of mishaps.
LEMMA CountMoves ==
  ASSUME TypeOK, NEW w \in Workers, Step(w)
  PROVE  \/ /\ delivered' = delivered /\ mishaps' \in {mishaps, mishaps + 1}
            /\ processed' = processed /\ pc[w] # "complete"
         \/ Complete(w) \/ SendChunk(w) \/ SendUnconfirmed(w)
<1> USE DEF At, memory, history, budget
<1>1. CASE Claim(w) \/ Duplicate(w) \/ Resolve(w) \/ VerifyActive(w) \/ FindLatest(w)
  BY <1>1 DEF Claim, Duplicate, Resolve, VerifyActive, FindLatest
<1>2. CASE CreateChat(w) \/ RememberChat(w) \/ CheckQuestion(w) \/ InsertQuestion(w)
  BY <1>2 DEF CreateChat, RememberChat, CheckQuestion, InsertQuestion, Insert
<1>3. CASE CheckAnswer(w) \/ InsertAnswer(w) \/ RunAgent(w) \/ Reply(w) \/ SuggestDevices(w)
  BY <1>3 DEF CheckAnswer, InsertAnswer, Insert, RunAgent, Reply, SuggestDevices
<1>4. CASE LookUpFailureUser(w) \/ DieSilently(w) \/ Notify(w) \/ Cancelled(w)
  BY <1>4 DEF LookUpFailureUser, DieSilently, Notify, Cancelled, Unbounded, Mishap
<1>5. CASE Fail(w)
  BY <1>5 DEF Fail, Mishap
<1>6. CASE \E u \in Updates : Deliver(w, u)
  BY <1>6 DEF Deliver
<1>7. QED
  BY <1>1, <1>2, <1>3, <1>4, <1>5, <1>6 DEF Step, Thread

LEMMA DeliveredStep == TypeOK /\ ClaimsInv /\ DeliveredInv /\ [Next]_vars => DeliveredInv'
<1> SUFFICES ASSUME TypeOK, ClaimsInv, DeliveredInv, [Next]_vars PROVE DeliveredInv'
  OBVIOUS
<1> DEFINE Counted(u) == delivered[u] <= 1 + mishaps /\ (delivered[u] > mishaps => Answered(u))
<1>t. /\ pc \in [Workers -> Busy \union Failing \union {"idle"}]
      /\ upd \in [Workers -> Updates]
      /\ delivered \in [Updates -> Nat] /\ mishaps \in Nat
  BY DEF TypeOK
<1>c. \A u \in Updates : Counted(u)
  BY DEF DeliveredInv, Answered
<1>g. (\A u \in Updates : Counted(u)') => DeliveredInv'
  BY DEF DeliveredInv, Answered
<1>1. ASSUME NEW w \in Workers, Step(w)
      PROVE  \A u \in Updates : Counted(u)'
  <2>1. \A v \in Workers \ {w} : pc'[v] = pc[v] /\ upd'[v] = upd[v]
    BY <1>1, OthersKeep
  <2>2. ASSUME delivered' = delivered, mishaps' \in {mishaps, mishaps + 1},
               processed' = processed, pc[w] # "complete"
        PROVE  \A u \in Updates : Counted(u)'
    <3> SUFFICES ASSUME NEW u \in Updates PROVE Counted(u)'
      OBVIOUS
    <3>1. Answered(u) => Answered(u)'
      BY <2>1, <2>2 DEF Answered, At
    <3>2. delivered[u] \in Nat /\ mishaps' \in Nat
      BY <1>t, <2>2
    <3>3. QED
      BY <1>t, <1>c, <2>2, <3>1, <3>2
  <2>3. ASSUME Complete(w)
        PROVE  \A u \in Updates : Counted(u)'
    <3>1. /\ processed' = processed \union {upd[w]}
          /\ delivered' = delivered /\ mishaps' = mishaps
      BY <2>3 DEF Complete, history, budget
    <3>2. \A u \in Updates : Answered(u) => Answered(u)'
      BY <2>1, <3>1 DEF Answered, At
    <3>3. QED
      BY <1>c, <3>1, <3>2
  <2>4. ASSUME pc[w] = "send" PROVE ~Answered(upd[w])
    BY <2>4 DEF ClaimsInv, Answered, At, Working, Busy
  <2>5. ASSUME SendChunk(w)
        PROVE  \A u \in Updates : Counted(u)'
    <3>1. pc[w] = "send" /\ processed' = processed /\ mishaps' = mishaps /\ upd' = upd
      BY <2>5 DEF SendChunk, At, memory, budget
    <3>2. CASE delivered' = delivered
      BY <2>2, <1>t, <3>1, <3>2
    <3>3. CASE delivered' = [delivered EXCEPT ![upd[w]] = @ + 1] /\ Goto(w, "complete")
      <4>1. Answered(upd[w])'
        BY <1>t, <3>1, <3>3 DEF Answered, At, Goto
      <4>2. delivered'[upd[w]] = delivered[upd[w]] + 1 /\ delivered[upd[w]] <= mishaps
        <5>1. upd[w] \in Updates /\ delivered[upd[w]] \in Nat
          BY <1>t
        <5>2. QED
          BY <1>t, <1>c, <2>4, <3>1, <3>3, <5>1
      <4>3. Counted(upd[w])'
        <5>1. delivered[upd[w]] \in Nat
          BY <1>t
        <5>2. QED
          BY <1>t, <3>1, <4>1, <4>2, <5>1
      <4>4. ASSUME NEW u \in Updates \ {upd[w]} PROVE Counted(u)'
        <5>1. delivered'[u] = delivered[u]
          BY <1>t, <3>3
        <5>2. Answered(u) => Answered(u)'
          BY <2>1, <3>1 DEF Answered, At
        <5>3. QED
          BY <1>c, <3>1, <5>1, <5>2
      <4>5. QED
        BY <3>1, <4>3, <4>4
    <3>4. QED
      BY <2>5, <3>2, <3>3 DEF SendChunk
  <2>6. ASSUME SendUnconfirmed(w)
        PROVE  \A u \in Updates : Counted(u)'
    <3>1. /\ pc[w] = "send" /\ processed' = processed /\ mishaps' = mishaps + 1
          /\ upd' = upd /\ delivered' = [delivered EXCEPT ![upd[w]] = @ + 1]
      BY <2>6 DEF SendUnconfirmed, At, Mishap
    <3>2. Counted(upd[w])'
      <4>1. upd[w] \in Updates /\ delivered[upd[w]] \in Nat
        BY <1>t
      <4>2. delivered[upd[w]] <= mishaps /\ delivered'[upd[w]] = delivered[upd[w]] + 1
        BY <1>t, <1>c, <2>4, <3>1, <4>1
      <4>3. delivered'[upd[w]] <= mishaps'
        BY <1>t, <3>1, <4>1, <4>2
      <4>4. delivered'[upd[w]] <= 1 + mishaps' /\ ~(delivered'[upd[w]] > mishaps')
        BY <1>t, <3>1, <4>1, <4>2, <4>3
      <4>5. QED
        BY <3>1, <4>4
    <3>3. ASSUME NEW u \in Updates \ {upd[w]} PROVE Counted(u)'
      <4>1. delivered'[u] = delivered[u] /\ delivered[u] \in Nat
        BY <1>t, <3>1
      <4>2. Answered(u) => Answered(u)'
        BY <2>1, <3>1 DEF Answered, At
      <4>3. QED
        BY <1>t, <1>c, <3>1, <4>1, <4>2
    <3>4. QED
      BY <3>1, <3>2, <3>3
  <2>7. QED
    BY <1>1, <2>2, <2>3, <2>5, <2>6, CountMoves
<1>2. ASSUME UNCHANGED <<delivered, mishaps, processed, pc, upd>>
      PROVE  \A u \in Updates : Counted(u)'
  BY <1>2, <1>c DEF Answered, At
<1>3. ASSUME Restart
      PROVE  \A u \in Updates : Counted(u)'
  <2>1. delivered' = delivered /\ mishaps' = mishaps + 1
    BY <1>3 DEF Restart, Mishap, history
  <2>2. ASSUME NEW u \in Updates PROVE Counted(u)'
    <3>1. delivered[u] \in Nat /\ delivered[u] <= 1 + mishaps
      BY <1>t, <1>c
    <3>2. QED
      BY <1>t, <2>1, <3>1
  <2>3. QED
    BY <2>2
<1>4. ASSUME (\E u \in Users \union {NoUser} : Relink(u)) \/ \E c \in ChatIds : DeleteChat(c)
      PROVE  UNCHANGED <<delivered, mishaps, processed, pc, upd>>
  BY <1>4 DEF Relink, DeleteChat, memory, locals, history
<1>5. ASSUME UNCHANGED vars
      PROVE  UNCHANGED <<delivered, mishaps, processed, pc, upd>>
  BY <1>5 DEF vars, memory, locals, history, budget
<1>6. QED
  <2> HIDE DEF Counted
  <2>1. QED
    BY <1>g, <1>1, <1>2, <1>3, <1>4, <1>5 DEF Next, Environment, Step

-----------------------------------------------------------------------------
(* Theorems. *)

LEMMA InvInit == Init => IInv
<1> SUFFICES ASSUME Init PROVE IInv
  OBVIOUS
<1>1. TypeOK
  BY TypeInit
<1>2. ClaimsInv
  BY DEF Init, ClaimsInv, ClaimsAreHeld, Working, Busy
<1>3. ChatsInv
  BY Constants DEF Init, ChatsInv, ChatInv, InChat
<1>4. SendingInv
  BY Constants DEF Init, SendingInv
<1>5. StoredInv
  BY DEF Init, StoredInv, StoredBy, OwnChatsOnly, AnswerUnderQuestion
<1>6. DeliveredInv
  BY DEF Init, DeliveredInv
<1>7. QED
  BY <1>1, <1>2, <1>3, <1>4, <1>5, <1>6 DEF IInv

LEMMA InvStep == IInv /\ [Next]_vars => IInv'
BY TypeStep, ClaimsStep, ChatsStep, SendingStep, StoredStep, DeliveredStep DEF IInv

\* The inductive invariant holds throughout, whatever is delivered, fails,
\* restarts, is relinked or deleted, and in whichever order.
THEOREM Invariant == Spec => []IInv
<1>1. QED
  BY InvInit, InvStep, PTL DEF Spec

\* TypeOK: no thread leaves the handler's control flow, no chat id and no chunk
\* count runs out of its range.
THEOREM TypeCorrect == Spec => []TypeOK
<1>1. IInv => TypeOK
  BY DEF IInv
<1>2. QED
  BY <1>1, Invariant, PTL

\* OwnChatsOnly: save_chat_message never stores a message in a chat of another
\* account, though its check and its insert are two calls and the identity may
\* be relinked, the chat deleted and the process restarted in between.
THEOREM OwnChats == Spec => []OwnChatsOnly
<1>1. IInv => OwnChatsOnly
  BY DEF IInv, StoredInv
<1>2. QED
  BY <1>1, Invariant, PTL

\* AnswerUnderQuestion: finish_telegram_history stores an answer only next to
\* the question of its own update.
THEOREM AnswersUnderQuestions == Spec => []AnswerUnderQuestion
<1>1. IInv => AnswerUnderQuestion
  BY DEF IInv, StoredInv
<1>2. QED
  BY <1>1, Invariant, PTL

\* StoredBeforeSent: process_telegram_update sends nothing of an answer that the
\* web history, unless its chat is gone, does not have.
THEOREM AnswersStoredFirst == Spec => []StoredBeforeSent
<1>1. IInv => StoredBeforeSent
  BY DEF IInv, StoredInv, StoredBy, Stored, StoredBeforeSent
<1>2. QED
  BY <1>1, Invariant, PTL

\* NoFreeDuplicates: the claims of the ledger keep an update from being answered
\* more often than once plus once per failed call or restart.
THEOREM DuplicatesAreOwed == Spec => []NoFreeDuplicates
<1>1. IInv => NoFreeDuplicates
  BY DEF IInv, DeliveredInv, NoFreeDuplicates
<1>2. QED
  BY <1>1, Invariant, PTL

\* ClaimsAreHeld: whatever raises, no path through the handlers of
\* process_telegram_update leaves a claim behind, a CancelledError excepted.
THEOREM ClaimsHeld == Spec => []ClaimsAreHeld
<1>1. IInv => ClaimsAreHeld
  BY DEF IInv, ClaimsInv
<1>2. QED
  BY <1>1, Invariant, PTL

=============================================================================
