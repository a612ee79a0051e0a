-------------------------------- MODULE AppDb --------------------------------
(***************************************************************************)
(* Every request for application data, from the route through              *)
(* services/auth_service.py, chat_service.py and prompt_service.py to      *)
(* storage/relational_store.py, which sends each call to Postgres, MySQL   *)
(* or SQLite: the connection pool all threads share, the one retry of a    *)
(* read on a stale connection, the circuit breaker and the SQLite fallback.*)
(*                                                                         *)
(* A request makes one call or two, each a transaction of its own.  A call *)
(* on a server may fail before it commits or after, and say that the       *)
(* connection was stale, that it timed out, or something else.             *)
(***************************************************************************)
EXTENDS AppTables, FiniteSets

CONSTANTS
  Threads,       \* threads with a request: "web", one at a time, and Telegram's
  Web,           \* the thread of the web server
  CircuitTicks,  \* POSTGRES_CIRCUIT_BREAKER_SECONDS
  Traffic,       \* bound: which kinds of request each thread gets, several choices
  MaxFaults,     \* bound on calls that a store fails
  MaxWrites      \* bound on requests that may write

ASSUME AppDbConstants ==
  /\ Web \in Threads
  /\ CircuitTicks \in Nat \ {0}
  /\ Traffic \subseteq [Threads -> SUBSET STRING]
  /\ {MaxFaults, MaxWrites} \subseteq Nat
  /\ \E m, n \in Names : m # n

PG == INSTANCE PostgresStore
My == INSTANCE MySqlStore
Lite == INSTANCE SqliteStore

VARIABLES
  backend,    \* APP_DB_BACKEND
  fallback,   \* APP_DB_FALLBACK_ENABLED
  traffic,    \* the choice from Traffic
  server,     \* the rows of Postgres or MySQL
  local,      \* the rows of SQLite
  pool,       \* _pool of postgres_store: none, open or closed
  circuit,    \* time until _postgres_circuit_open_until
  session,    \* the login cookie of the browser: its user and user name
  pc, req, op, retried, answer, error, \* locals of each thread
  wrote,      \* history: writes of the request, by store
  held,       \* history: what the request asks for was there all along
  faults, writing  \* failed calls, and requests that may write, so far

config == <<backend, fallback, traffic>>
stores == <<server, local>>
frame == <<pc, req, op, retried, answer, error>>
vars == <<config, stores, pool, circuit, session, frame, wrote, held, faults, writing>>

-----------------------------------------------------------------------------
(* Requests, and the calls they make. *)

NoUser == 0
LoggedOut == [user |-> NoUser, name |-> CHOOSE n \in Names : TRUE]

Kinds ==
  {"register", "login", "rename", "delete_account", "change_password",
   "list_chats", "create_chat", "read", "save", "delete_chat", "toggle_pin",
   "list_prompts", "create_prompt", "update_prompt", "delete_prompt", "usage_stats"}

\* right: the password in the request is the right one.
Request ==
  [kind : Kinds, user : Ids("users") \union {NoUser}, name : Names, chat : Ids("chats"),
   prompt : Ids("prompts"), text : Texts, right : BOOLEAN]

\* What a request calls first ...
FirstCall ==
  [register |-> "create_user", login |-> "get_user_by_username",
   rename |-> "get_user_by_username", delete_account |-> "get_user_by_username",
   change_password |-> "change_user_password",
   list_chats |-> "get_chats", create_chat |-> "create_chat",
   read |-> "chat_belongs_to_user", save |-> "chat_belongs_to_user",
   delete_chat |-> "delete_chat", toggle_pin |-> "toggle_pin_chat",
   list_prompts |-> "get_prompts", create_prompt |-> "create_prompt",
   update_prompt |-> "update_prompt", delete_prompt |-> "delete_prompt",
   usage_stats |-> "get_user_usage_stats"]

\* ... and, if the answer allows it, second.
SecondCall ==
  [rename |-> "update_username", delete_account |-> "delete_user_account",
   read |-> "get_messages", save |-> "add_message", usage_stats |-> "health_check"]

\* The get_... functions, chat_belongs_to_user and health_check; of the listings
\* an empty one is no refusal.
Reads == {"get_user_by_username", "get_chats", "chat_belongs_to_user", "get_messages",
          "get_prompts", "get_user_usage_stats", "health_check"}
Listings == {"get_chats", "get_messages", "get_prompts", "get_user_usage_stats", "health_check"}
Calls == {FirstCall[k] : k \in DOMAIN FirstCall} \union {SecondCall[k] : k \in DOMAIN SecondCall}
Writes == Calls \ Reads

\* Faulty variant: every call may be repeated.
retry_everything(call) == TRUE

_postgres_retry_allowed(call) == call \in Reads

Labels == {"idle", "pool", "borrow", "server", "recover", "close", "forget", "local",
           "answered", "raised"}

\* "timeout" stands for messages with a timeout marker and a stale marker; one
\* with a timeout marker alone is "other".
Errors == {"none", "stale", "timeout", "other"}
_looks_like_stale_postgres_connection(e) == e \in {"stale", "timeout"}
_looks_like_postgres_timeout(e) == e = "timeout"

TypeOK ==
  /\ backend \in {"supabase", "mysql", "sqlite"}
  /\ fallback \in BOOLEAN
  /\ traffic \in Traffic
  /\ server \in Tables
  /\ local \in Tables
  /\ pool \in {"none", "open", "closed"}
  /\ circuit \in 0..CircuitTicks
  /\ session \in [user : Ids("users") \union {NoUser}, name : Names]
  /\ pc \in [Threads -> Labels]
  /\ req \in [Threads -> Request]
  /\ op \in [Threads -> Calls]
  /\ retried \in [Threads -> BOOLEAN]
  /\ answer \in [Threads -> SUBSET Nat]
  /\ error \in [Threads -> Errors]
  /\ wrote \in [Threads -> [server : Nat, local : Nat]]
  /\ held \in [Threads -> BOOLEAN]
  /\ faults \in 0..MaxFaults
  /\ writing \in 0..MaxWrites

NoRequest ==
  [kind |-> "usage_stats", user |-> NoUser, name |-> LoggedOut.name, chat |-> 1, prompt |-> 1,
   text |-> CHOOSE x \in Texts : TRUE, right |-> TRUE]
NoWrites == [server |-> 0, local |-> 0]

\* Two accounts, the first with a chat and a prompt.
Initial ==
  LET name == CHOOSE f \in [1..2 -> Names] : f[1] = LoggedOut.name /\ f[2] # f[1]
  IN [Empty EXCEPT !.users = name,
                   !.chats = [c \in {1} |-> [user |-> 1, pinned |-> FALSE]],
                   !.prompts = [p \in {1} |-> [user |-> 1, text |-> NoRequest.text]],
                   !.used = [users |-> 2, chats |-> 1, prompts |-> 1]]

\* The rows of the server were migrated from SQLite, which still has them.
\* Without a server nobody reads APP_DB_FALLBACK_ENABLED.
Init ==
  /\ backend \in {"supabase", "mysql", "sqlite"}
  /\ fallback \in IF backend = "sqlite" THEN {FALSE} ELSE BOOLEAN
  /\ traffic \in Traffic
  /\ server = IF backend = "sqlite" THEN Empty ELSE Initial
  /\ local = Initial
  /\ pool = "none"
  /\ circuit = 0
  /\ session \in {LoggedOut, [user |-> 1, name |-> Initial.users[1]]}
  /\ pc = [t \in Threads |-> "idle"]
  /\ req = [t \in Threads |-> NoRequest]
  /\ op = [t \in Threads |-> "health_check"]
  /\ retried = [t \in Threads |-> FALSE]
  /\ answer = [t \in Threads |-> {}]
  /\ error = [t \in Threads |-> "none"]
  /\ wrote = [t \in Threads |-> NoWrites]
  /\ held = [t \in Threads |-> TRUE]
  /\ faults = 0
  /\ writing = 0

\* The store the configuration names.
Primary == IF backend = "sqlite" THEN local ELSE server


-----------------------------------------------------------------------------
(* What the threads are asked. *)

\* Requests of an account, by what they are about.
From(u, n) == [NoRequest EXCEPT !.user = u, !.name = n]
Asking(r, kind) == [r EXCEPT !.kind = kind]
Naming(r, kind, n) == [r EXCEPT !.kind = kind, !.name = n]
OnChat(r, kind, c) == [r EXCEPT !.kind = kind, !.chat = c]
OnPrompt(r, kind, p, x) == [r EXCEPT !.kind = kind, !.prompt = p, !.text = x]

\* With the right password, and with a wrong one.
Guesses(r) == {r, [r EXCEPT !.right = FALSE]}

\* /login and /api/register, and what require_login_json lets through.
WebRequests ==
  LET mine == From(session.user, session.name)
  IN IF session.user = NoUser
       THEN {Naming(NoRequest, "register", n) : n \in Names}
              \union UNION {Guesses(Naming(NoRequest, "login", n)) : n \in Names}
       ELSE {Asking(mine, k) : k \in {"list_chats", "create_chat", "list_prompts", "usage_stats"}}
              \union {OnChat(mine, k, c) :
                        k \in {"read", "save", "delete_chat", "toggle_pin"}, c \in Ids("chats")}
              \union {OnPrompt(mine, "create_prompt", 1, x) : x \in Texts}
              \union {OnPrompt(mine, "update_prompt", p, x) : p \in Ids("prompts"), x \in Texts}
              \union {OnPrompt(mine, "delete_prompt", p, NoRequest.text) : p \in Ids("prompts")}
              \union {Naming(mine, "rename", n) : n \in Names}
              \union UNION {Guesses(Asking(mine, k)) : k \in {"change_password", "delete_account"}}

\* A Telegram thread works for the account its sender is linked to, as long as
\* the identity, which goes with the account, is there.
TelegramRequests ==
  LET mine == {From(u, NoRequest.name) : u \in {1} \intersect DOMAIN Primary.users}
  IN {Asking(r, k) : r \in mine, k \in {"list_chats", "create_chat"}}
       \union {OnChat(r, "save", c) : r \in mine, c \in Ids("chats")}

\* Bound: an INSERT finds room, whatever else is under way.
HasRoom(kind) ==
  LET table == [register |-> "users", create_chat |-> "chats", create_prompt |-> "prompts"]
      inserting == Cardinality({t \in Threads : pc[t] # "idle" /\ req[t].kind = kind})
  IN kind \in DOMAIN table =>
       \A s \in {server, local} : s.used[table[kind]] + inserting < Room[table[kind]]

MayWrite(kind) ==
  \/ FirstCall[kind] \in Writes
  \/ kind \in DOMAIN SecondCall /\ SecondCall[kind] \in Writes

Goto(t, l) == pc' = [pc EXCEPT ![t] = l]

\* The reply is sent and the locals are gone.
Reply(t) ==
  /\ Goto(t, "idle")
  /\ req' = [req EXCEPT ![t] = NoRequest]
  /\ op' = [op EXCEPT ![t] = "health_check"]
  /\ retried' = [retried EXCEPT ![t] = FALSE]
  /\ answer' = [answer EXCEPT ![t] = {}]
  /\ error' = [error EXCEPT ![t] = "none"]
  /\ wrote' = [wrote EXCEPT ![t] = NoWrites]

-----------------------------------------------------------------------------
(* One call: _with_fallback, and the health check of get_storage_status. *)

CircuitIsOpen == circuit > 0

\* With the circuit open, Postgres is not asked.
Start(t, call) ==
  /\ op' = [op EXCEPT ![t] = call]
  /\ retried' = [retried EXCEPT ![t] = FALSE]
  /\ answer' = [answer EXCEPT ![t] = {}]
  /\ error' = [error EXCEPT ![t] = "none"]
  /\ Goto(t, CASE backend = "mysql" -> "server"
                [] backend = "supabase" /\ ~(fallback /\ CircuitIsOpen) -> "pool"
                [] OTHER -> "local")

Begin(t, r) ==
  /\ pc[t] = "idle"
  /\ r.kind \in traffic[t]
  /\ HasRoom(r.kind)
  /\ IF MayWrite(r.kind)
       THEN writing < MaxWrites /\ writing' = writing + 1
       ELSE UNCHANGED writing
  /\ req' = [req EXCEPT ![t] = r]
  /\ Start(t, FirstCall[r.kind])
  /\ UNCHANGED <<config, stores, pool, circuit, session, wrote, faults>>

\* get_postgres_connection looks at _pool and builds one ...
GetPool(t) ==
  /\ pc[t] = "pool"
  /\ pool' = IF pool = "none" THEN "open" ELSE pool
  /\ Goto(t, "borrow")
  /\ UNCHANGED <<config, stores, circuit, session, req, op, retried, answer, error, wrote, faults, writing>>

\* ... and looks at it again to borrow a connection: another thread may have
\* closed it meanwhile, or taken it away.
Borrow(t) ==
  /\ pc[t] = "borrow"
  /\ IF pool = "open"
       THEN Goto(t, "server") /\ UNCHANGED error
       ELSE Goto(t, "recover") /\ error' = [error EXCEPT ![t] = "other"]
  /\ UNCHANGED <<config, stores, pool, circuit, session, req, op, retried, answer, wrote, faults, writing>>

ServerCall(t) ==
  IF backend = "mysql" THEN My!Call(server, op[t], req[t]) ELSE PG!Call(server, op[t], req[t])

\* The rows a call changed count as one write.
Wrote(t, store, result) ==
  wrote' = IF op[t] \in Writes /\ result.answer # {}
             THEN [wrote EXCEPT ![t][store] = wrote[t][store] + 1]
             ELSE wrote

\* The call commits and answers, or violates a constraint.
Execute(t) ==
  /\ pc[t] = "server"
  /\ LET result == ServerCall(t)
     IN /\ server' = result.rows
        /\ answer' = [answer EXCEPT ![t] = result.answer]
        /\ error' = [error EXCEPT ![t] = IF result.raises THEN "other" ELSE "none"]
        /\ Wrote(t, "server", result)
        /\ Goto(t, IF result.raises THEN "recover" ELSE "answered")
  /\ UNCHANGED <<config, local, pool, circuit, session, req, op, retried, faults, writing>>

\* The call fails, before its commit or with the commit's reply lost.  Only with
\* Postgres does anyone look at what the error says.
Fault(t, e, committed) ==
  /\ pc[t] = "server"
  /\ backend = "supabase" \/ e = "other"
  /\ faults < MaxFaults
  /\ faults' = faults + 1
  /\ error' = [error EXCEPT ![t] = e]
  /\ Goto(t, "recover")
  /\ LET result == ServerCall(t)
     IN IF committed /\ ~result.raises
          THEN server' = result.rows /\ Wrote(t, "server", result)
          ELSE UNCHANGED <<server, wrote>>
  /\ UNCHANGED <<config, local, pool, circuit, session, req, op, retried, answer, writing>>

\* One retry of a read, unless the failure was a timeout; the health check
\* does not ask whether it was.
MayRetry(t) ==
  /\ backend = "supabase"
  /\ ~retried[t]
  /\ _looks_like_stale_postgres_connection(error[t])
  /\ \/ op[t] = "health_check"
     \/ _postgres_retry_allowed(op[t]) /\ ~_looks_like_postgres_timeout(error[t])

\* close_postgres_pool reads _pool to compare it with None ...
Retry(t) ==
  /\ pc[t] = "recover"
  /\ MayRetry(t)
  /\ retried' = [retried EXCEPT ![t] = TRUE]
  /\ Goto(t, IF pool = "none" THEN "pool" ELSE "close")
  /\ UNCHANGED <<config, stores, pool, circuit, session, req, op, answer, error, wrote, faults, writing>>

\* Faulty variant: a failed call answers as if it had found nothing.
GiveUpQuietly(t) ==
  /\ pc[t] = "recover"
  /\ ~MayRetry(t)
  /\ ~fallback
  /\ Goto(t, "answered")
  /\ UNCHANGED <<config, stores, pool, circuit, session, req, op, retried, answer, error, wrote, faults, writing>>

\* Without the fallback the call raises; the profile shows "unavailable".
GiveUp(t) ==
  /\ pc[t] = "recover"
  /\ ~MayRetry(t)
  /\ ~fallback
  /\ IF op[t] = "health_check"
       THEN Reply(t)
       ELSE Goto(t, "raised") /\ UNCHANGED <<req, op, retried, answer, error, wrote>>
  /\ UNCHANGED <<config, stores, pool, circuit, session, faults, writing>>

\* record_fallback opens the circuit, and SQLite takes the call over, whatever
\* it was that failed.
FallBack(t) ==
  /\ pc[t] = "recover"
  /\ ~MayRetry(t)
  /\ fallback
  /\ circuit' = CircuitTicks
  /\ IF op[t] = "health_check"
       THEN Reply(t)
       ELSE /\ Goto(t, "local")
            /\ error' = [error EXCEPT ![t] = "none"]
            /\ UNCHANGED <<req, op, retried, answer, wrote>>
  /\ UNCHANGED <<config, stores, pool, session, faults, writing>>

\* ... again to close it, which raises if another thread has just reset it ...
ClosePool(t) ==
  /\ pc[t] = "close"
  /\ IF pool = "none"
       THEN Goto(t, "raised") /\ UNCHANGED pool
       ELSE Goto(t, "forget") /\ pool' = "closed"
  /\ UNCHANGED <<config, stores, circuit, session, req, op, retried, answer, error, wrote, faults, writing>>

\* Faulty variant: the closed pool is kept.
KeepPool(t) ==
  /\ pc[t] = "forget"
  /\ Goto(t, "pool")
  /\ UNCHANGED <<config, stores, pool, circuit, session, req, op, retried, answer, error, wrote, faults, writing>>

\* ... and resets it.  A pool that was built in between is lost, not closed.
ForgetPool(t) ==
  /\ pc[t] = "forget"
  /\ pool' = "none"
  /\ Goto(t, "pool")
  /\ UNCHANGED <<config, stores, circuit, session, req, op, retried, answer, error, wrote, faults, writing>>

\* Faulty variant: whatever SQLite serves renews the outage.
LocalRenewing(t) ==
  /\ pc[t] = "local"
  /\ op[t] # "health_check"
  /\ LET result == Lite!Call(local, op[t], req[t])
     IN /\ local' = result.rows
        /\ answer' = [answer EXCEPT ![t] = result.answer]
        /\ Wrote(t, "local", result)
        /\ Goto(t, IF result.raises THEN "raised" ELSE "answered")
  /\ circuit' = IF fallback THEN CircuitTicks ELSE circuit
  /\ UNCHANGED <<config, server, pool, session, req, op, retried, error, faults, writing>>

\* The sqlite_operation.
Local(t) ==
  /\ pc[t] = "local"
  /\ op[t] # "health_check"
  /\ LET result == Lite!Call(local, op[t], req[t])
     IN /\ local' = result.rows
        /\ answer' = [answer EXCEPT ![t] = result.answer]
        /\ Wrote(t, "local", result)
        /\ Goto(t, IF result.raises THEN "raised" ELSE "answered")
  /\ UNCHANGED <<config, server, pool, circuit, session, req, op, retried, error, faults, writing>>

\* The profile says that SQLite serves, without asking it.
LocalStatus(t) ==
  /\ pc[t] = "local"
  /\ op[t] = "health_check"
  /\ Reply(t)
  /\ UNCHANGED <<config, stores, pool, circuit, session, faults, writing>>

\* SQLite is locked by another writer for too long.
LocalFault(t) ==
  /\ pc[t] = "local"
  /\ op[t] # "health_check"
  /\ faults < MaxFaults
  /\ faults' = faults + 1
  /\ Goto(t, "raised")
  /\ UNCHANGED <<config, stores, pool, circuit, session, req, op, retried, answer, error, wrote, writing>>

-----------------------------------------------------------------------------
(* What the services make of the answer. *)

\* 401, 404 or 400: nobody by that name, wrong password, name taken, no such row.
Refused(t) ==
  CASE op[t] \in Listings -> FALSE
    [] op[t] = "get_user_by_username" ->
         IF req[t].kind = "rename" THEN answer[t] # {} ELSE answer[t] = {} \/ ~req[t].right
    [] OTHER -> answer[t] = {}

Refuse(t) ==
  /\ pc[t] = "answered"
  /\ Refused(t)
  /\ Reply(t)
  /\ UNCHANGED <<config, stores, pool, circuit, session, faults, writing>>

HasSecondCall(t) == req[t].kind \in DOMAIN SecondCall /\ op[t] = FirstCall[req[t].kind]

\* Faulty variant: save_chat_message and get_chat_messages do not ask whose
\* chat it is.
SecondUnchecked(t) ==
  /\ pc[t] = "answered"
  /\ HasSecondCall(t)
  /\ Start(t, SecondCall[req[t].kind])
  /\ UNCHANGED <<config, stores, pool, circuit, session, req, wrote, faults, writing>>

\* change_username, delete_account, get_chat_messages, save_chat_message and
\* get_profile_usage_stats go on to their second transaction.
Second(t) ==
  /\ pc[t] = "answered"
  /\ ~Refused(t)
  /\ HasSecondCall(t)
  /\ Start(t, SecondCall[req[t].kind])
  /\ UNCHANGED <<config, stores, pool, circuit, session, req, wrote, faults, writing>>

\* The reply of a success, with what it does to the cookie; a health check that
\* succeeded closes the circuit (clear_fallback).
Succeed(t) ==
  /\ pc[t] = "answered"
  /\ ~Refused(t)
  /\ ~HasSecondCall(t)
  /\ session' = CASE req[t].kind = "login" ->
                       [user |-> CHOOSE u \in answer[t] : TRUE, name |-> req[t].name]
                  [] req[t].kind = "rename" -> [session EXCEPT !.name = req[t].name]
                  [] req[t].kind = "delete_account" -> LoggedOut
                  [] OTHER -> session
  /\ circuit' = IF op[t] = "health_check" THEN 0 ELSE circuit
  /\ Reply(t)
  /\ UNCHANGED <<config, stores, pool, faults, writing>>

\* An exception: 500, or an error in the chat; register_user reports every one
\* as "Username already exists", 400.
Raise(t) ==
  /\ pc[t] = "raised"
  /\ Reply(t)
  /\ UNCHANGED <<config, stores, pool, circuit, session, faults, writing>>

-----------------------------------------------------------------------------

\* /logout
Logout ==
  /\ pc[Web] = "idle"
  /\ "login" \in traffic[Web]
  /\ session.user # NoUser
  /\ session' = LoggedOut
  /\ UNCHANGED <<config, stores, pool, circuit, frame, wrote, faults, writing>>

Tick ==
  /\ circuit > 0
  /\ circuit' = circuit - 1
  /\ UNCHANGED <<config, stores, pool, session, frame, wrote, faults, writing>>

Run(t) ==
  \/ GetPool(t) \/ Borrow(t) \/ Execute(t)
  \/ Retry(t) \/ GiveUp(t) \/ FallBack(t) \/ ClosePool(t) \/ ForgetPool(t)
  \/ Local(t) \/ LocalStatus(t) \/ Refuse(t) \/ Second(t) \/ Succeed(t) \/ Raise(t)

Fail(t) ==
  \/ \E e \in Errors \ {"none"}, committed \in BOOLEAN : Fault(t, e, committed)
  \/ LocalFault(t)

\* What the request asks for is there, in the store the configuration names.
Holds(t) ==
  LET r == req[t]
      s == Primary
      own(table, id) == id \in OwnedBy(table, r.user)
  IN CASE r.kind = "register" -> r.name \notin Range(s.users)
       [] r.kind = "rename" -> r.user \in DOMAIN s.users /\ r.name \notin Range(s.users)
       [] r.kind = "login" -> r.right /\ r.name \in Range(s.users)
       [] r.kind = "change_password" -> r.right /\ r.user \in DOMAIN s.users
       [] r.kind = "delete_account" -> r.right /\ r.user \in UserNamed(s, r.name).answer
       [] r.kind \in {"read", "save", "delete_chat", "toggle_pin"} -> own(s.chats, r.chat)
       [] r.kind = "delete_prompt" -> own(s.prompts, r.prompt)
       [] r.kind = "update_prompt" -> /\ own(s.prompts, r.prompt)
                                      /\ backend = "mysql" => s.prompts[r.prompt].text # r.text
       [] OTHER -> TRUE

Watch ==
  held' = [t \in Threads |-> pc'[t] = "idle" \/ ((held[t] \/ pc[t] = "idle") /\ Holds(t)')]

Step ==
  \/ \E r \in WebRequests : Begin(Web, r)
  \/ \E t \in Threads \ {Web}, r \in TelegramRequests : Begin(t, r)
  \/ \E t \in Threads : Run(t) \/ Fail(t)
  \/ Logout
  \/ Tick

Next == Step /\ Watch

\* A thread that runs goes on, and time passes.
Fairness ==
  /\ \A t \in Threads : WF_vars(Run(t) /\ Watch)
  /\ WF_vars(Tick /\ Watch)

Spec == Init /\ [][Next]_vars /\ Fairness

-----------------------------------------------------------------------------
(* Properties. *)

Server == backend # "sqlite"

\* With the fallback off, no chat, prompt or message outlives what it belongs
\* to, and every message was written by the account whose chat it is in, although
\* save_chat_message checks in one transaction and writes in the next, and
\* chats and accounts are deleted in between.
OwnRows ==
  Server /\ ~fallback =>
    /\ \A m \in server.messages : m.chat \in OwnedBy(server.chats, m.by)
    /\ \A c \in DOMAIN server.chats : server.chats[c].user \in DOMAIN server.users
    /\ \A p \in DOMAIN server.prompts : server.prompts[p].user \in DOMAIN server.users

\* A request writes once, whatever its calls run into: with the fallback on at
\* most once in each store, with the fallback off in the configured one alone.
WrittenOnce ==
  \A t \in Threads :
    /\ wrote[t].server =< 1
    /\ wrote[t].local =< 1
    /\ Server /\ ~fallback => wrote[t].local = 0

\* With the fallback off, no request is refused as wrong, missing or taken if what
\* it asks for was there all along; an outage is reported as one.  (In MySQL, a
\* prompt saved as it is counts as missing; an account is deleted by the user
\* name in the cookie, which must still be its name.)
RefusalsAreTrue ==
  \A t \in Threads : pc[t] = "answered" /\ Refused(t) => fallback \/ ~held[t]

\* A closed pool is about to be replaced: it never stays, to refuse every call.
NoDeadPool == pool = "closed" => \E t \in Threads : pc[t] = "forget"

\* An outage does not outlive its cause: the circuit closes again and again,
\* however many requests SQLite serves while it is open.
CircuitCloses == []<>(circuit = 0)
=============================================================================
