--------------------------- MODULE TelegramUpdates ---------------------------
(***************************************************************************)
(* One Telegram update from webhook to reply: the threads started by       *)
(* process_telegram_update_in_background, their conversation history in    *)
(* the application database, and everything that happens meanwhile: the    *)
(* same update delivered again, the sender's account relinked, the chat    *)
(* deleted in the web page, a call that raises or is cancelled, a restart. *)
(*                                                                         *)
(* One action is one call that leaves the thread (a database operation, a  *)
(* critical section, a request to Telegram, a read of the company's data,  *)
(* the agent run) or one write to a module global.  The ledger is the one of TelegramLedger within one    *)
(* retention window, so nothing expires here.  Chats are the user's chats  *)
(* titled "Telegram: ...", numbered by their ids; the database is Postgres *)
(* with APP_DB_FALLBACK_ENABLED off, which enforces its foreign keys.      *)
(***************************************************************************)
EXTENDS Integers, FiniteSets

CONSTANTS
  Workers,     \* threads
  Updates,     \* messages of one Telegram sender, by update_id
  Topics,      \* the updates that are slash commands of the prompt catalogue
  Users,       \* application accounts the sender may be linked to
  NoUser,      \* the sender is not linked, or its identity is inactive
  Chunks,      \* messages that one answer is split into
  MaxChats,        \* bound on chats
  MaxDeliveries,   \* bound on webhook calls
  MaxDisturbances  \* bound on failed calls, restarts, relinks and deleted chats

ASSUME PipelineConstants ==
  /\ Topics \subseteq Updates
  /\ Updates # {}
  /\ {MaxChats, MaxDeliveries, MaxDisturbances} \subseteq Nat
  /\ NoUser \notin Users
  /\ Chunks \in Nat \ {0}

NoChat == 0
ChatIds == 1..MaxChats

VARIABLES
  inflight,   \* _telegram_updates_inflight
  processed,  \* keys of _telegram_updates_processed
  active,     \* _telegram_active_history of the sender, or NoChat
  linked,     \* the account the sender's active identity maps to, or NoUser
  owner,      \* owner[c]: the account chat c belongs to; NoUser if absent
  created,    \* chat ids handed out so far
  messages,   \* rows of the messages table
  pc, upd, user, chat, isNew, sent, \* locals of each thread
  delivered,  \* history: delivered[u], answers that reached Telegram in full
  silent,     \* history: updates whose failure handler died before it said so
  cancelled,  \* history: updates whose thread was ended by a CancelledError
  mishaps,    \* history: failed calls and restarts so far
  deliveries, disturbances  \* webhook calls and disturbances so far

memory == <<inflight, processed, active>>
database == <<owner, created, messages>>
locals == <<pc, upd, user, chat, isNew, sent>>
history == <<delivered, silent, cancelled>>
budget == <<mishaps, deliveries, disturbances>>
vars == <<memory, linked, database, locals, history, budget>>

Message == [chat : ChatIds, role : {"user", "assistant"}, upd : Updates, user : Users]

Busy == {"claim", "resolve", "coverage", "reply", "verify", "latest", "create", "remember",
         "check", "insert", "run", "checkA", "insertA", "send", "complete"}
Failing == {"failed", "notice"}

\* Where a thread may be waiting for the MCP server or the agent, neither of
\* which need ever answer: future.result() has no timeout.
Unbounded == {"coverage", "run"}

TypeOK ==
  /\ inflight \in SUBSET Updates
  /\ processed \in SUBSET Updates
  /\ active \in ChatIds \union {NoChat}
  /\ linked \in Users \union {NoUser}
  /\ owner \in [ChatIds -> Users \union {NoUser}]
  /\ created \in 0..MaxChats
  /\ messages \in SUBSET Message
  /\ pc \in [Workers -> Busy \union Failing \union {"idle"}]
  /\ upd \in [Workers -> Updates]
  /\ user \in [Workers -> Users \union {NoUser}]
  /\ chat \in [Workers -> ChatIds \union {NoChat}]
  /\ isNew \in [Workers -> BOOLEAN]
  /\ sent \in [Workers -> 0..Chunks]
  /\ delivered \in [Updates -> Nat]
  /\ {silent, cancelled} \subseteq SUBSET Updates
  /\ {mishaps, deliveries, disturbances} \subseteq Nat

Init ==
  /\ inflight = {}
  /\ processed = {}
  /\ active = NoChat
  /\ linked \in Users \union {NoUser}
  /\ owner = [c \in ChatIds |-> NoUser]
  /\ created = 0
  /\ messages = {}
  /\ pc = [w \in Workers |-> "idle"]
  /\ upd \in {[w \in Workers |-> u] : u \in {CHOOSE u \in Updates : TRUE}}
  /\ user = [w \in Workers |-> NoUser]
  /\ chat = [w \in Workers |-> NoChat]
  /\ isNew = [w \in Workers |-> FALSE]
  /\ sent = [w \in Workers |-> 0]
  /\ delivered = [u \in Updates |-> 0]
  /\ silent = {}
  /\ cancelled = {}
  /\ mishaps = 0
  /\ deliveries = 0
  /\ disturbances = 0

-----------------------------------------------------------------------------
(* Threads. *)

At(w, l) == pc[w] = l
Goto(w, l) == pc' = [pc EXCEPT ![w] = l]

Disturb ==
  /\ disturbances < MaxDisturbances
  /\ disturbances' = disturbances + 1
  /\ UNCHANGED deliveries

Mishap == Disturb /\ mishaps' = mishaps + 1

\* The thread is over; its locals are gone.
End(w) ==
  /\ Goto(w, "idle")
  /\ user' = [user EXCEPT ![w] = NoUser]
  /\ chat' = [chat EXCEPT ![w] = NoChat]
  /\ isNew' = [isNew EXCEPT ![w] = FALSE]
  /\ sent' = [sent EXCEPT ![w] = 0]
  /\ UNCHANGED upd

\* telegram_webhook: a thread per delivery, of a new update or of an old one.
Deliver(w, u) ==
  /\ At(w, "idle")
  /\ deliveries < MaxDeliveries
  /\ deliveries' = deliveries + 1
  /\ Goto(w, "claim")
  /\ upd' = [upd EXCEPT ![w] = u]
  /\ UNCHANGED <<memory, linked, database, user, chat, isNew, sent, history, mishaps, disturbances>>

\* claim_telegram_update, under its lock.
Claim(w) ==
  /\ At(w, "claim")
  /\ upd[w] \notin inflight \union processed
  /\ inflight' = inflight \union {upd[w]}
  /\ Goto(w, "resolve")
  /\ UNCHANGED <<processed, active, linked, database, upd, user, chat, isNew, sent,
                 history, budget>>

Duplicate(w) ==
  /\ At(w, "claim")
  /\ upd[w] \in inflight \union processed
  /\ End(w)
  /\ UNCHANGED <<memory, linked, database, history, budget>>

\* The dispatch of process_telegram_update.  /link, /unlink and /help get a
\* reply of their own, and so does a sender without an active identity or whose
\* identity lacks the selected data source; a slash command that needs a device
\* and names none gets a list of the company's devices; all others go on to
\* start_telegram_history, which looks up the active chat of the sender first.
Resolve(w) ==
  /\ At(w, "resolve")
  /\ \/ Goto(w, "reply") /\ UNCHANGED <<user, chat>>
     \/ linked # NoUser /\ upd[w] \in Topics /\ Goto(w, "coverage") /\ UNCHANGED <<user, chat>>
     \/ /\ linked # NoUser
        /\ user' = [user EXCEPT ![w] = linked]
        /\ IF upd[w] \in Topics
             THEN Goto(w, "create") /\ UNCHANGED chat
             ELSE /\ Goto(w, IF active = NoChat THEN "latest" ELSE "verify")
                  /\ chat' = [chat EXCEPT ![w] = active]
  /\ UNCHANGED <<memory, linked, database, upd, isNew, sent, history, budget>>

\* get_telegram_device_suggestions: whether its read of the company's data
\* succeeds or raises, a help text is the reply.
SuggestDevices(w) ==
  /\ At(w, "coverage")
  /\ Goto(w, "reply")
  /\ UNCHANGED <<memory, linked, database, upd, user, chat, isNew, sent, history, budget>>

-----------------------------------------------------------------------------
(* Conversation history. *)

\* Faulty variant: chat_belongs_to_user without its user_id condition.
Exists(c, u) == c # NoChat /\ owner[c] # NoUser

\* chat_belongs_to_user.
Belongs(c, u) == c # NoChat /\ u # NoUser /\ owner[c] = u

\* The active chat may have been deleted, or be another account's.
VerifyActive(w) ==
  /\ At(w, "verify")
  /\ Goto(w, IF Belongs(chat[w], user[w]) THEN "check" ELSE "latest")
  /\ UNCHANGED <<memory, linked, database, upd, user, chat, isNew, sent, history, budget>>

\* latest_telegram_history_chat_id; an error of the query counts as no chat.
FindLatest(w) ==
  LET mine == {c \in ChatIds : Belongs(c, user[w])}
      latest == {c \in mine : \A d \in mine : d <= c}
  IN  /\ At(w, "latest")
      /\ \E c \in latest \union {NoChat} :
           /\ chat' = [chat EXCEPT ![w] = c]
           /\ Goto(w, IF c = NoChat THEN "create" ELSE "check")
      /\ UNCHANGED <<memory, linked, database, upd, user, isNew, sent, history, budget>>

CreateChat(w) ==
  /\ At(w, "create")
  /\ created < MaxChats
  /\ created' = created + 1
  /\ owner' = [owner EXCEPT ![created'] = user[w]]
  /\ chat' = [chat EXCEPT ![w] = created']
  /\ isNew' = [isNew EXCEPT ![w] = TRUE]
  /\ Goto(w, "remember")
  /\ UNCHANGED <<memory, linked, messages, upd, user, sent, history, budget>>

RememberChat(w) ==
  /\ At(w, "remember")
  /\ active' = chat[w]
  /\ Goto(w, "check")
  /\ UNCHANGED <<inflight, processed, linked, database, upd, user, chat, isNew, sent, history, budget>>

\* save_chat_message of the question, first half: chat_belongs_to_user.  A chat
\* that is gone is replaced once; for a chat just created the result is ignored.
CheckQuestion(w) ==
  /\ At(w, "check")
  /\ Goto(w, IF Belongs(chat[w], user[w]) THEN "insert"
             ELSE IF isNew[w] THEN "run" ELSE "create")
  /\ UNCHANGED <<memory, linked, database, upd, user, chat, isNew, sent, history, budget>>

\* Faulty variant: messages go to the active chat of the sender.
InsertIntoActive(w, role, next) ==
  /\ active # NoChat
  /\ owner[active] # NoUser
  /\ messages' = messages \union
       {[chat |-> active, role |-> role, upd |-> upd[w], user |-> user[w]]}
  /\ Goto(w, next)
  /\ UNCHANGED <<memory, linked, owner, created, upd, user, chat, isNew, sent, history, budget>>

\* add_message: the foreign key of messages refuses a chat that is gone.
Insert(w, role, next) ==
  /\ owner[chat[w]] # NoUser
  /\ messages' = messages \union
       {[chat |-> chat[w], role |-> role, upd |-> upd[w], user |-> user[w]]}
  /\ Goto(w, next)
  /\ UNCHANGED <<memory, linked, owner, created, upd, user, chat, isNew, sent, history, budget>>

InsertQuestion(w) == At(w, "insert") /\ Insert(w, "user", "run")

\* Faulty variant: the answer is sent without having been stored.
RunAgentUnstored(w) ==
  /\ At(w, "run")
  /\ Goto(w, "send")
  /\ UNCHANGED <<memory, linked, database, upd, user, chat, isNew, sent, history, budget>>

\* resolve_source_context and run_stream, to the final event.
RunAgent(w) ==
  /\ At(w, "run")
  /\ Goto(w, "checkA")
  /\ UNCHANGED <<memory, linked, database, upd, user, chat, isNew, sent, history, budget>>

\* finish_telegram_history: the answer is dropped when the chat is gone.
CheckAnswer(w) ==
  /\ At(w, "checkA")
  /\ Goto(w, IF Belongs(chat[w], user[w]) THEN "insertA" ELSE "send")
  /\ UNCHANGED <<memory, linked, database, upd, user, chat, isNew, sent, history, budget>>

InsertAnswer(w) == At(w, "insertA") /\ Insert(w, "assistant", "send")

-----------------------------------------------------------------------------
(* Replies. *)

\* Faulty variant: split_telegram_text adds an empty chunk at the end.
SendChunkOneMore(w) ==
  /\ At(w, "send")
  /\ sent' = [sent EXCEPT ![w] = @ + 1]
  /\ IF sent'[w] > Chunks
       THEN /\ Goto(w, "complete")
            /\ delivered' = [delivered EXCEPT ![upd[w]] = @ + 1]
       ELSE UNCHANGED <<pc, delivered>>
  /\ UNCHANGED <<memory, linked, database, upd, user, chat, isNew, silent, cancelled, budget>>

\* send_telegram_message: one request per chunk.
SendChunk(w) ==
  /\ At(w, "send")
  /\ sent' = [sent EXCEPT ![w] = @ + 1]
  /\ IF sent'[w] = Chunks
       THEN /\ Goto(w, "complete")
            /\ delivered' = [delivered EXCEPT ![upd[w]] = @ + 1]
       ELSE UNCHANGED <<pc, delivered>>
  /\ UNCHANGED <<memory, linked, database, upd, user, chat, isNew, silent, cancelled, budget>>

\* The last chunk arrived but its response did not: the request raises.
SendUnconfirmed(w) ==
  /\ At(w, "send")
  /\ sent[w] + 1 = Chunks
  /\ Mishap
  /\ delivered' = [delivered EXCEPT ![upd[w]] = @ + 1]
  /\ inflight' = inflight \ {upd[w]}
  /\ Goto(w, "failed")
  /\ UNCHANGED <<processed, active, linked, database, upd, user, chat, isNew, sent, silent, cancelled>>

\* A help text, a link result or a refusal.
Reply(w) ==
  /\ At(w, "reply")
  /\ Goto(w, "complete")
  /\ UNCHANGED <<memory, linked, database, upd, user, chat, isNew, sent, history, budget>>

\* Faulty variant: complete_telegram_update only releases the claim.
CompleteForgetting(w) ==
  /\ At(w, "complete")
  /\ inflight' = inflight \ {upd[w]}
  /\ End(w)
  /\ UNCHANGED <<processed, active, linked, database, history, budget>>

\* complete_telegram_update.
Complete(w) ==
  /\ At(w, "complete")
  /\ inflight' = inflight \ {upd[w]}
  /\ processed' = processed \union {upd[w]}
  /\ End(w)
  /\ UNCHANGED <<active, linked, database, history, budget>>

-----------------------------------------------------------------------------
(* Failures. *)

\* Faulty variant: the exception handler does not release the claim.
FailKeepingClaim(w) ==
  /\ pc[w] \in Busy \ {"claim", "coverage", "complete"}
  /\ \/ Mishap
     \/ /\ pc[w] \in {"insert", "insertA"}
        /\ owner[chat[w]] = NoUser
        /\ UNCHANGED budget
  /\ Goto(w, "failed")
  /\ UNCHANGED <<memory, linked, database, upd, user, chat, isNew, sent, history>>

\* Any call of the thread may raise, an insert into a deleted chat does:
\* release_telegram_update, and the exception goes to the thread's handler.
Fail(w) ==
  /\ pc[w] \in Busy \ {"claim", "coverage", "complete"}
  /\ \/ Mishap
     \/ /\ pc[w] \in {"insert", "insertA"}
        /\ owner[chat[w]] = NoUser
        /\ UNCHANGED budget
  /\ inflight' = inflight \ {upd[w]}
  /\ Goto(w, "failed")
  /\ UNCHANGED <<processed, active, linked, database, upd, user, chat, isNew, sent, history>>

\* get_telegram_failure_user_id reads the identity again.
LookUpFailureUser(w) ==
  /\ At(w, "failed")
  /\ Goto(w, "notice")
  /\ UNCHANGED <<memory, linked, database, upd, user, chat, isNew, sent, history, budget>>

\* It is not protected: when it raises, the thread dies without a word.
DieSilently(w) ==
  /\ At(w, "failed")
  /\ Mishap
  /\ silent' = silent \union {upd[w]}
  /\ End(w)
  /\ UNCHANGED <<memory, linked, database, delivered, cancelled>>

\* The failure notice (an error is swallowed) and telegram_chat_failed.
Notify(w) ==
  /\ At(w, "notice")
  /\ End(w)
  /\ UNCHANGED <<memory, linked, database, history, budget>>

\* A call that goes through SyncMcpToolSession raises the CancelledError of a
\* session that was torn down.  It is no Exception: it passes the handler that
\* releases the claim and the thread's own, and the thread dies with its claim.
Cancelled(w) ==
  /\ pc[w] \in Unbounded
  /\ Mishap
  /\ cancelled' = cancelled \union {upd[w]}
  /\ End(w)
  /\ UNCHANGED <<memory, linked, database, delivered, silent>>

-----------------------------------------------------------------------------
(* Everybody else. *)

Relink(u) ==
  /\ u # linked
  /\ Disturb
  /\ linked' = u
  /\ UNCHANGED <<memory, database, locals, history, mishaps>>

\* The owner deletes the chat in the web page; its messages go with it.
DeleteChat(c) ==
  /\ owner[c] # NoUser
  /\ Disturb
  /\ owner' = [owner EXCEPT ![c] = NoUser]
  /\ messages' = {m \in messages : m.chat # c}
  /\ UNCHANGED <<memory, linked, created, locals, history, mishaps>>

\* The process stops and starts again; Telegram and the database do not.
Restart ==
  /\ Mishap
  /\ inflight' = {}
  /\ processed' = {}
  /\ active' = NoChat
  /\ pc' = [w \in Workers |-> "idle"]
  /\ user' = [w \in Workers |-> NoUser]
  /\ chat' = [w \in Workers |-> NoChat]
  /\ isNew' = [w \in Workers |-> FALSE]
  /\ sent' = [w \in Workers |-> 0]
  /\ cancelled' = {}
  /\ UNCHANGED <<linked, database, upd, delivered, silent>>

Thread(w) ==
  \/ Claim(w) \/ Duplicate(w) \/ Resolve(w) \/ SuggestDevices(w)
  \/ VerifyActive(w) \/ FindLatest(w) \/ CreateChat(w) \/ RememberChat(w)
  \/ CheckQuestion(w) \/ InsertQuestion(w) \/ RunAgent(w)
  \/ CheckAnswer(w) \/ InsertAnswer(w)
  \/ SendChunk(w) \/ SendUnconfirmed(w) \/ Reply(w) \/ Complete(w)
  \/ Fail(w) \/ LookUpFailureUser(w) \/ DieSilently(w) \/ Notify(w) \/ Cancelled(w)

Environment ==
  \/ \E u \in Users \union {NoUser} : Relink(u)
  \/ \E c \in ChatIds : DeleteChat(c)
  \/ Restart

Next ==
  \/ \E w \in Workers : Thread(w) \/ \E u \in Updates : Deliver(w, u)
  \/ Environment

\* The scheduler runs every thread that can move: the requests to Telegram and
\* the database operations have timeouts.  Of the calls that have none, the
\* reads through the MCP session and the agent, nothing is assumed.
Fairness == \A w \in Workers : WF_vars(pc[w] \notin Unbounded /\ Thread(w))

Spec == Init /\ [][Next]_vars /\ Fairness

-----------------------------------------------------------------------------
(* Properties. *)

\* A message is stored only in a chat of the account it was sent for, though the
\* sender may be linked to another account, and the sender's active chat be
\* another one, by the time it is stored.
OwnChatsOnly == \A m \in messages : owner[m.chat] = m.user

\* An answer is stored under its own question: two threads of one sender that
\* start chats and replace deleted ones never mix up where their answers go.
AnswerUnderQuestion ==
  \A m \in messages : m.role = "assistant" => [m EXCEPT !.role = "user"] \in messages

\* What Telegram shows, the web history has, unless its chat has been deleted:
\* the answer is stored before its first chunk is sent.
StoredBeforeSent ==
  \A w \in Workers : pc[w] \in {"send", "complete"} /\ chat[w] # NoChat =>
    \/ owner[chat[w]] = NoUser
    \/ [chat |-> chat[w], role |-> "assistant", upd |-> upd[w], user |-> user[w]] \in messages

\* However often an update is delivered, each copy of its answer beyond the
\* first is owed to a failed call or to a restart.
NoFreeDuplicates ==
  \A u \in Updates : delivered[u] =< 1 + mishaps

\* A claim is some thread's, which will come to complete or release it - or of
\* a thread that died of a CancelledError, which releases nothing.
ClaimsAreHeld ==
  \A u \in inflight : u \in cancelled \/ \E w \in Workers : upd[w] = u /\ pc[w] \in Busy \ {"claim"}

\* A claimed update is eventually completed or released, on every path through
\* the handler, refusals and exceptions included, but for the three places where
\* a claim gets stuck: the agent does not return, the read of the company's
\* devices does not, or a CancelledError comes out of one of the two.
ClaimsAreReturned ==
  \A u \in Updates :
    u \in inflight ~> \/ u \notin inflight
                      \/ u \in cancelled
                      \/ \E w \in Workers : pc[w] \in Unbounded /\ upd[w] = u

\* tests/test_security_and_realtime.py has a failed update send a notice to the
\* Telegram chat: the handler that catches the failure always tries to.
FailureIsAnnounced == silent = {}
=============================================================================
