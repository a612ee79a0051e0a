# iot-ops-agent in TLA+

Specifications of the concurrent and stateful parts of *iot-ops-agent*, a Flask
application that answers operations questions about IoT equipment, on the web
and through a Telegram bot, from a simulator or from company data.  TLC checks
the specifications on small instances; TLAPS proves theorems about some of them
for every value of their constants.

Paths below are relative to the repository (`services/telegram_service.py` is
`src/services/telegram_service.py`); "the code" is always that source.

## 1. Inventory

The program is one process: Flask with Socket.IO in gevent mode and *without*
monkey patching (`app.py`, `async_mode="gevent"`).  HTTP handlers are greenlets on
one OS thread, and a handler keeps that thread from its first line to its last,
database calls and model calls included, unless it streams: a stream is suspended
at each event it sends.  Telegram updates run on OS threads of their own
(`process_telegram_update_in_background`), and so does the asyncio client of an MCP
session.  Real races therefore exist between Telegram threads, between a Telegram
thread and the web, between suspended streams, between an MCP session and its
caller, and between the process and the administrator's scripts, which share only
the database.

| Component | State | Operations | Talks to |
|---|---|---|---|
| Telegram update ledger (`services/telegram_service.py`) | set of updates in flight, ordered dict of the last 2048 completed, one lock | claim, complete, release, prune, trim | called by each Telegram thread |
| Telegram request pipeline (`services/telegram_service.py`, `routes/telegram_routes.py`, `services/chat_service.py`) | active chat per sender (module global), chats and messages (database) | webhook, dispatch, start and finish of the history, chunked reply, failure handler | ledger, database, agents, Telegram, Socket.IO |
| Telegram account linking (`services/telegram_link_service.py`, `scripts/*_telegram_identity.py`) | link codes, identities, data-source policies (database) | issue, consume, unlink, grant, revoke | database, several transactions each |
| MCP session and read proxy (`services/mcp_client.py`, `services/company_mongo_proxy.py`) | request queue, thread, ready event, error, Future per call | open with retries, call, retry on a new session, close | MCP server, company data service |
| MCP pacing and one-shot calls (`services/mcp_client.py`, `services/mcp_observability_service.py`) | time of the last request, lock | pace, 429 and observability retries | MCP server |
| Application database access (`storage/relational_store.py` and the backends) | connection pool, circuit-breaker deadline, fallback record | run with fallback, fail over, retry, status | Postgres or MySQL, SQLite |
| Rate limiters (proxy, login, diagnose, telemetry) | deque of timestamps per key | allow or refuse, clear | their routes; the proxy's also from Telegram threads |
| Data source selection (`routes/telemetry_routes.py`) | cookie session, process memory per account, policy | select, remember, resolve | diagnosis API, Telegram |
| LangGraph policy agent (`agents/langgraph_agent.py`) | graph state of one run | classify, select, authorize, execute, validate, answer or deny | tools, model |
| IOA v3 Ops Graph (`agents/ioa_v3_agent.py`) | graph state, n8n gateway, tool registry | the same idea with several workflows and plans | n8n, Grafana, MCP, tools |
| Diagnosis API and event stream (`routes/diagnose_routes.py`, `services/diagnose_service.py`) | none of its own | one answer, or a stream of events | agents, chats, benchmark log |
| Telemetry store and simulator (`storage/telemetry_store.py`, `storage/mongo_store.py`, `simulator.py`, `app.py`, the backfill script) | rows in SQLite and MongoDB, the broadcast loop | write to either or both, read with fallback, backfill, status and alarm rules | Socket.IO, telemetry routes |
| Company data service and rules | none of its own | parse, aggregate, alert rules; the simulator's snapshot for a read that fails | read proxy, SQLite |
| Accounts, sessions, profile; chats and prompts | rows of one account | CRUD | database |
| Earlier agents, web client, maintenance scripts, benchmark log | - | - | - |

What makes each hard, and what makes it correct:

* **Ledger.**  Telegram repeats an update it got no answer for.  A delivery may
  race the first one, come after a failure, after the entry was pruned or pushed
  out, or after a restart; the pruning cutoff is read before the lock.  Correct
  means: one holder per update, no claim lost or leaked, a completed update
  forgotten only by age or by overflow, a refusal only with a reason.
* **Pipeline.**  Between any two calls the chat may be deleted, the sender
  relinked, another update of the sender started, the call may raise, the
  process may stop.  Correct means: messages in the account's own chats, answers
  under their questions, nothing sent that the history lacks, no repetition
  without a fault, every claim returned, a failure announced.
* **Linking.**  `/link` runs six transactions and the grant script two, and
  nothing holds the rows in between.  Correct means: a code links once, company
  rights and the operator role come only from an administrator, `/link` neither
  grants company data nor takes a sender from its account.
* **MCP session.**  The stop signal travels in the queue of the requests, and
  the queue outlives a failed thread.  Correct means: no two threads on a queue,
  `close` returns, calls return.
* **Governed agents.**  Two agents are each driven twice, by LangGraph and by a
  loop of their own, a language model proposes the plan, any service may fail.
  Correct means: nothing is read before it is approved, nor from a source that was
  not granted, nor over the budget; no answer without evidence; both drivers
  decide alike; the plan keeps to the allowlists and to the runbooks.  Where the
  company cannot be read, nearly every company tool reads the simulator instead
  (`simulator_fallback_snapshot`), which the request was not granted: the model has
  it, `GovernedWorkflow` allows it by name, finding 5 is about it.
* **Diagnosis.**  Two endpoints run the same seven runtimes through handlers of
  their own.  Correct means: a request ends once, both endpoints come to the same
  verdict, the benchmark has the row the client saw; what the requests of the
  custom agent share stays consistent although its streams are suspended.
* **Application database.**  Three stores, each with its own SQL, behind a retry, a
  circuit breaker, a fallback and a pool two threads share.  Correct means: rows
  belong to accounts that exist, a request writes once, a refusal is true, an
  outage ends.
* **Data source.**  Policy, identity, cookie and process memory are read at
  different moments of a request.  Correct means: a request runs on a source that
  was allowed and chosen.
* **Limiters.**  Threads read the clock before the lock, the deque need not be
  sorted and is pruned from one end; one limiter goes by the time of day, which may
  be set back.  Correct means: no window holds more than the limit.
* **Telemetry.**  Two stores, a swallowed failure, a backfill that is repeated and
  interrupted.  Correct means: the backfill copies each row once.

`PROJECT.json` lists each of these hazards with its line and its properties.

## 2. Modules

| Module | What it is |
|---|---|
| `UpdateClaims` | abstract promise of the de-duplication: who may run an update, and when again |
| `TelegramLedger` | the set, the ordered dict and the lock that deliver it |
| `TelegramLedger_proofs` | its theorems |
| `TelegramUpdates` | one sender's updates from webhook to reply, with the database and everybody else |
| `TelegramUpdates_proofs` | its theorems |
| `TelegramLink` | codes, identities and policies, transaction by transaction |
| `TelegramLink_proofs` | its theorems |
| `McpSession` | the session, its thread and queue, and the retrying proxy that calls it |
| `McpSession_proofs` | its theorems |
| `StreamEvents` | the events of an agent and of the event stream |
| `GovernedWorkflow` | abstract promise of the governed agents: approval, sources, budget, evidence |
| `PolicyGraph` | the LangGraph agent (`ioa_v2_langgraph`), both drivers |
| `OpsClassifier`, `OpsPlanner`, `OpsGraph` | IOA v3: the keyword taxonomy, the plan and its corrections, the graph and both drivers |
| `ReactAgent` | the custom agent (`ioa_v2_custom`) and the memory its requests share |
| `Diagnosis` | both endpoints over all seven runtimes; composes the three agents |
| `Diagnosis_proofs` | its theorems about the routes |
| `DiagnosisAgents_proofs` | its theorems about the agents the routes drive: the shared memory, the two governed graphs, their governance, and the verdict of both endpoints |
| `AppTables` | rows of one application database and the statements the stores share |
| `PostgresStore`, `MySqlStore`, `SqliteStore` | the functions of each store, as functions of the rows |
| `AppDb` | requests, calls, pool, retry, circuit breaker and fallback over two stores |
| `AppDb_proofs` | its theorems |
| `DataSources` | policy, identity, cookie and memory; browsers, Telegram threads, grant script |
| `SlidingWindow` | the rate limiters |
| `McpPacing` | one-shot MCP calls: pacing lock and 429 retries |
| `TelemetryStore` | telemetry writers and the backfill script |
| `SourceReads` | composes the last four: a request that was given the company source reads it through the limiters |
| `SourceReads_proofs` | its theorems |
| `MC...` | instances for TLC |

`PROJECT.json` "map" gives, for every definition that models code, the lines it
models.  Definitions introduced as *Faulty variant* model plausible mistakes;
no next-state relation uses them, they serve to show that each property notices
the mistake.

### TelegramLedger and UpdateClaims

`inflight`, `processed` are the module globals; `pc`, `key`, `cutoff` the locals
of a thread; `done`, `completions` are history.  An action is one critical
section, or one step outside the lock: `BeginClaim` reads the clock, `Grant` and
`Refuse` are the two ends of the critical section of `claim_telegram_update`,
`Complete` and `Release` those of the other two functions.  The pruning loop is
written declaratively (`ExpiredPrefix`): it drops `n` entries when those are old
and the next is not.  `Stamp` is assignment to an OrderedDict (a present key
keeps its place), `Trim` the overflow loop.  An update without an id is
`BeginAnonymous`; `Restart` loses everything.

`UpdateClaims` has no such structures: a worker may claim an update nobody holds
that was never completed, was completed more than `Retention` ago, or has been
followed by `Capacity` completions.  The refinement maps the workers at work to
claims, and takes `done` and `completions` as they are.

### TelegramUpdates

A thread's `pc` stands before its next call: `claim`, `resolve` (the dispatch
and the identity), `coverage` (a slash command without its device lists the
company's devices, read through the MCP proxy), `verify`, `latest`, `create`,
`remember` (the four steps of `start_telegram_history`), `check`, `insert` (the
two of `save_chat_message`), `run` (the agent), `checkA`, `insertA`, `send`, `complete`, or `reply` for
commands and refusals; `failed` and `notice` are the thread's exception handler.
`Fail` may strike before any call whose exception is not caught.  `Cancelled`
is the `CancelledError` of a torn-down MCP session, which is no `Exception`: it
passes `except Exception`, the one that releases the claim and the thread's own, and
the thread dies with its claim.  `Relink`, `DeleteChat` and `Restart` are
everybody else.  The ledger is that of `TelegramLedger` within one retention
window: nothing expires, so a duplicate answer cannot be excused by age.

The database is Postgres with `APP_DB_FALLBACK_ENABLED` off: foreign keys are
enforced.  (SQLite connections of this program do not turn them on; there an
answer may stay behind for a deleted chat.)

### TelegramLink

One action per transaction.  `Command` ... `WriteBack` is `consume_link_code` in
the order of its calls; what it reads stays in `seen` and `scope` until it is
used.  `GrantIdentity` and `GrantPolicy` are the two transactions of
`scripts/upsert_telegram_identity.py`, `GrantAborts` an exception between them;
`Deactivate` is `/unlink` and the revoke script.  `DeleteAccount` is the web's
`delete_user_account` in Postgres or MySQL, where the foreign keys take codes and
identities along and refuse an upsert that comes later.  A policy is the normalised set
of allowed sources (always with `simulator`); the default source is a function
of it.

### McpSession

The caller (`pc`) is the code between `with MCPCompanyMongoReadProxy()` and its
end; `thread` is `_run_loop`.  `opening` and `attempt` count the rounds of
`__enter__` and of `_call_mcp_read_tool`.  `Close` puts `None` into the queue and
waits; `Join` goes on to what follows: another round on the *same* queue, a new
session, or the end.  `draining` is a thread whose connection broke while an
executor thread was waiting for the queue: `shutdown_default_executor` waits for
that one.

### GovernedWorkflow, PolicyGraph, OpsClassifier, OpsPlanner, OpsGraph

A node of either graph is an action; `graph[c].at` is the node that is next,
`Route` the edges.  A caller in `Streams` is served by `run_stream`, whose loop
tests the policy after every node and yields events into `outbox`; any other by
`run`, where LangGraph routes at its conditional edges only, and exceptions get
out.  The prompt of the LangGraph agent is the set of keyword groups it holds,
that of IOA v3 the set of phrases out of which `classify_tool` looks for its
keywords as substrings; `Has` a family of phrases means that one of them contains
one of the family's keywords.  `OpsPlanner` takes the model's proposal through
the same filters and corrections, in the same order, as `plan_workflows`.
`world` fixes what the services do in a behaviour.

A company tool whose read fails does one of two things.  The threshold scan raises
out of its node.  All others catch the failure and return the simulator's
snapshot (`FallsBack`, `Snapshot`): `"simulator"` joins the sources read, the
evidence is `"snapshot"`, and the graph goes on; with `"lost"` the simulator's
store fails as well, and the tool raises.  A snapshot has no resources of oneM2M and
an n8n text no verdict, so IOA v3's builders give nothing for them and the model
is prompted (`HasBuilder`).

The taxonomy and the planner are long lists of keyword rules.  Besides reading
them against the source, both were compared with the Python functions themselves:
6881 prompts for `classify_tool`, 1965 prompts and proposals for the planner,
without a difference.

`GovernedWorkflow` knows phases, granted sources, sources read, a count of
executions, and the sources that are down.  An execution reads granted sources
and, only for one of them that is down, its `Fallback` (the simulator for the
company).  `PolicyGraph` implements it with one execution, `OpsGraph` with five;
a query only counts when its node really calls a service.

### ReactAgent and Diagnosis

`memory` is the agent object: one for all requests.  `Diagnosis` gives a request a
script (`job[c].todo`): relay an agent, call a runtime, write the benchmark row,
send an event, and the handlers that replace the rest of the script when something
raises.  `holder` is the request that has the server's only thread; it is given up
exactly where an event is sent.  `Disconnect` closes a suspended generator.

### AppTables, the stores, AppDb

A function of a store is a TLA+ function from rows and arguments to rows, result
and whether it raises; `Call` dispatches.  `AppDb` runs a request as one call or two
(`chat_belongs_to_user`, then `add_message`), each a transaction.  `GetPool`,
`Borrow`, `ClosePool` and `ForgetPool` are the unlocked accesses to the module
global `_pool`; `Fault` fails a call before or after its commit; `Retry`, `GiveUp`
and `FallBack` are the three ends of `_with_fallback`; `Local` is the same call in
SQLite.  With `backend = "sqlite"` there is no server.  What the reading of the
stores showed, and `AppDb` has:

* MySQL counts changed rows, so a prompt saved as it is answers 404.
* `delete_account` looks the account up by the user name in the cookie: after a
  rename in another session a right password is "incorrect".
* SQLite does not enforce foreign keys here; its account deletion leaves the
  Telegram identities.
* MySQL does not ask the circuit breaker, and an integrity error counts as an
  outage when the fallback is on.
* `close_postgres_pool` tests `_pool` and then uses it: when another thread takes
  it away in between, an `AttributeError` leaves `_with_fallback`.
* The ids of two stores are unrelated.  Rows written during an outage stay in
  SQLite, and a chat id of one store names another chat in the other.  With the
  fallback on, ownership across the outage is therefore not a property.
* `register_user` answers every exception with "Username already exists".

### DataSources, SlidingWindow, McpPacing, TelemetryStore, SourceReads

A web request (`web`) and a Telegram thread (`thread[w]`) go from one read to the
next; each read of the policy is an action, as the administrator's script may run
in between.  A browser sends the cookie it has (`Send`); the answer replaces it.
`offered` and `chosen` are history.

`Prune` pops from the left and stops at the first time inside the window.  Callers
of the shared limiter read the clock (`ReadClock`) and take the lock later; the
limiters of the web routes run in one step (`CheckAlone`), by the scheduling above.
There are two clocks.  `clock` is `time.monotonic`, of the proxied reads, login,
MongoDB routes and pacing.  `wall` is `time.time`, of `check_diagnose_rate_limit`
alone (`WallTimed`): it is set forward by `WallForward` and back by `WallBack`.
After it was set back, times of the old reckoning that had left the deque are
forgotten, and as many requests again may be admitted at the same times of day.
`LimitHolds` therefore promises one reckoning at a time: `WallBack` reduces
`admitted` of that limiter to what its deque still holds.
`McpPacing` holds the lock while it sleeps; the time of the last request is a
window of limit one.

`Find` and `Insert` are the two halves of the server's upsert, between which another
client may insert; `unique` is the index that notices.  A duplicate-key error makes
the server look again, and it then matches.

What the reading showed, besides the properties:

* `Retry-After` is rounded down: a client that waits exactly that long may be
  refused once more.
* By clock reading the limit is exact; by time of admission a window may hold one
  more for each thread that read the clock before it and came to the lock in it.
* A GET sent with the old cookie can undo a selection just made, in cookie and
  memory: its answer carries the old session back.
* After a restart Telegram uses the default source until the next web request
  brings the selection from its cookie.
* All limits are per process.
* With a limit of two in two seconds, admissions at 0, 0 and 2, the clock set back to
  1, and one more there, the diagnosis limiter has admitted four requests whose
  times of day lie within two seconds.
* In dual mode a failed MongoDB write is swallowed and not repeated.  Readers that
  fall back from MongoDB to SQLite and return may see time go back, and
  `get_telemetry_source` says "mongodb" meanwhile.  A backfill of rows that dual
  mode wrote makes second documents of them, with source `sqlite_backfill`.

## 3. What the runs check

| Run | Shows |
|---|---|
| `ledger` | types; one holder per update; nothing forgotten too early; refusals have reasons; `UpdateClaims` is implemented |
| `updates` | own chats only; answers under their questions; stored before sent; an answer is repeated at most once per fault; a claim is in the hands of a thread (`ClaimsAreHeld`) and returned, unless its thread waits for ever for the agent or for MCP, or dies of a `CancelledError` (`ClaimsAreReturned`) |
| `updates_silent` | *violated*: a failure is announced (finding 1) |
| `link` | single-use codes, company and operator rights only by an administrator, links give what the policy offered, a deleted account gets no sender back (`DeletedForGood`) |
| `link_self_grant` | *violated*: `/link` never grants company data (finding 2) |
| `link_takeover` | *violated*: `/link` never moves a sender (finding 3) |
| `mcp` | one thread per queue; `close` returns, whatever fails; reads on a session that opened at its first attempt return, through failing tool calls, retries and reopened sessions |
| `mcp_stale_stop` | *violated*: calls return (finding 4) |
| `diagnosis` | both governed agents implement `GovernedWorkflow`, served, streamed, failed and abandoned (`AgentsAreGoverned`); their two drivers agree (`GraphsAgree`); plans keep to allowlists, budget and runbooks (`PlansAreAuthorizable` of both agents, `RunbookComesFirst`); no answer without evidence; requests end once and alike on both endpoints (`EndsOnce`, `VerdictsAgree`) with the right benchmark rows; shared conversation and token count stay consistent (`HistoryIsPaired`, `RunReportsItsOwnUsage`) |
| `diagnosis_fallback` | *violated*: simulator data is never presented as company data (finding 5) |
| `appdb` | ownership of rows in both servers; one write per request and store; refusals are true; a closed pool never stays; the circuit closes again and again (liveness) |
| `sources` | a Telegram request runs on a source that one policy since its start allowed and that was chosen (`SourceWasJustified`); no window holds more than the limit, proxied reads, web routes and paced MCP requests alike, the diagnosis routes for as long as the time of day is not set back (`LimitHolds`); the backfill copies each row once and leaves none out (`BackfillCopiesOnce`) |

`EndsOnce`, `VerdictsAgree` and `BenchmarkRows` name the exceptions the code has: a
benchmark row that fails after a final event adds an error event, n8n streams
preview an answer that is no text, a stream of IOA v3 apologises where the JSON
reply is an error, and so on.  Each exception is the narrowest TLC accepts.

Every property of a passing run has a mutant in `PROJECT.json`: a one-definition
change in the way the code could be wrong, under which the run reports it.

### Bounds

* `ledger`: two workers suffice for every pairwise race; three updates exceed the
  capacity of two, so overflow happens;
  a retention of one and a clock of three let an entry be young, exactly at the
  cutoff, and old, and a cutoff be two units behind; four completions fill the
  ledger and overflow it twice.  The proofs remove these bounds, as those of section 4 do for `updates`, `link`,
  `sources` and `appdb`.
* `updates`: two threads, a slash command and a free text, two deliveries (two
  updates at once, or one twice), two disturbances: a fault and an interference,
  or two of a kind.  A chat is created twice by one thread only after a deleted
  one, which is a disturbance, so three chats suffice.  Answers have two chunks.
* `link`: two commands of two senders and one code race each other, and two
  interventions, runs of the grant script or deleted accounts, move, promote, demote
  and delete; the two `violation` runs use bounds of their own.
* `mcp`: the source's own three attempts; four failed openings let one session
  fail for good and another one recover.
* `diagnosis`: one request of each endpoint with the same question, all seven
  runtimes, at most one failing service.  The questions reach every family of the
  classifiers and every correction of a plan, the proposals every filter; the
  replies of the custom agent's model cover each kind in each of its rounds.
  More than two requests add nothing to what the drivers decide alone, and for the
  shared memory a pair interferes in every way the fields allow.
* `appdb`: two accounts, a chat and a prompt to begin with, room for one more of
  each; two writing requests and any number of reading ones; one fault.  Either
  the web server runs every kind of request, or it deletes and saves while a
  Telegram thread works on the same chat.
* `sources`: seven mixes of what goes on together (`Traffic`), as all of it at once is
  out of reach: policies and selections; selections and restarts; direct reads by
  two threads and restarts under time; direct reads beside the web server; web
  routes under time; MCP requests of two threads under time and restarts; telemetry
  and two runs of the backfill.  A clock of four and a window of two let a time be inside, at the
  edge and outside; a limit of two with two late threads fills a deque out of
  order, and the time of day may be set to any value of the same range.  Three
  readings in batches of two make a second page that is not full,
  and a row can be added behind a page already read.

Threads, and in `link` accounts, are interchangeable (no definition
chooses one; the `CHOOSE`s are over updates, senders and codes, which are not in
the symmetry sets).  Symmetry is used for invariants and box-action properties
only, never with liveness.

`CHECK_DEADLOCK FALSE` stands where a system with bounded inputs comes to rest:
no delivery or read is left.

### Fairness

`TelegramUpdates` assumes weak fairness of a thread wherever its next call
has a timeout, `WF(pc[w] \notin Unbounded /\ Thread(w))`: the scheduler runs
it, and requests to Telegram and database operations end.  Nothing is assumed at
two places, `Unbounded`: the agent, and the read of company data behind a slash
command without its device, which waits for a Future of the MCP session without a
timeout (`services/mcp_client.py:233`; finding 4 shows a wait for ever).  The property
names both: a claim is returned unless its thread comes to one of them and
stays, or has died there of a `CancelledError`, in which case the claim is stuck
until the process restarts.  `McpSession` assumes weak fairness of
the caller once what it waits for has happened (`Proceed`) and of the thread
(`Thread`): connecting and calling a tool end, with a result or an error, by the
client's timeouts.  Nothing is assumed of the environment, of entering or
leaving, or of breaking connections.  `AppDb` assumes weak fairness of each
running request, whose calls end by the driver's timeouts, and of the clock;
nothing of new requests or faults.

## 4. What is proved

`TelegramLedger_proofs` proves, for any sets of workers and updates and any
retention, capacity and bounds (assumption: `LedgerConstants` only):
`TypeCorrect`, `HoldersCorrect`, `LedgerCorrect`, `RefusalsCorrect` - the four
properties of run `ledger` - and `LedgerImplementsClaims`, that the ledger
implements `UpdateClaims`.

None of these is inductive alone.  The inductive invariant is

    IInv == TypeOK /\ LocalsInv /\ HoldersInv /\ EntriesInv /\ ForgottenInv

`LocalsInv` bounds the locals (an idle thread has no key, a cutoff is never ahead
of the clock); `HoldersInv` says that the in-flight set is what the workers hold.
The heart is `EntriesInv` with `ForgottenInv`: no entry is in flight; the i-th
entry is the (completions - Len + i)-th completion, dated with the time of it, and
entries are in order of time, which is what makes popping and pruning from the
*front* sound; and an update that is not in the ledger is `Repeatable`.  Because a
key in the ledger is never in flight, a completion always appends a new entry -
`d[k] = t` never overwrites one, so insertion order is completion order - and the
entry that overflow drops has `Capacity` completions behind it.
Each action has a lemma; operators on the entry list (`DropFirst`, `Stamp`,
`Trim`) have theirs.  The refinement adds that every step of the ledger is a step
or a stutter of `UpdateClaims` under the mapping.

`TelegramLink_proofs` proves, for any sets of threads, senders, accounts and codes
and any number of grants and deletions (assumption: `LinkConstants` only): `TypeCorrect`,
`CodesCorrect`, `CompanyCorrect`, `OperatorsCorrect`, `DeletedCorrect` and
`LinksCorrect`, the six properties of run `link`.  The inductive invariant

    IInv == TypeOK /\ LocalsInv /\ LinksInv /\ CompanyInv /\ OperatorInv /\ OfferInv
            /\ DeletedForGood

says why a thread may use what it read several transactions ago.  Past its check
a code belongs to its account for good (`LocalsInv`); between mark and upsert a
code has exactly one thread and no link (`LinksInv`); a right that a thread has
read, or the script still has to write, is in the history of grants, which only
grows (`CompanyInv`, `OperatorInv`: a role that was read comes from an identity
of the *same* account, because of the already-linked check); what a thread has
read, or is still to read, has been offered to its command (`OfferInv`).  Types
alone are not inductive: that a policy is read and written for an existing account
rests on `LocalsInv`.  The lemmas `ThreadSteps`, `CodeWriters`,
`PolicyWriters`, `IdentitySteps`, `CodesStay` and `GrantsStay` say once what a step
can do to a thread, to a table or to one row, so each conjunct is proved from them
instead of from all fifteen actions.  The rights
proved are weaker than what the documentation promises: findings 2 and 3 are the
difference.

`TelegramUpdates_proofs` proves the six safety properties of run `updates`, for
any threads, updates, chats, chunks, deliveries and disturbances (assumption:
`PipelineConstants`, which asks for an update and natural bounds):

    IInv == TypeOK /\ ClaimsInv /\ ChatsInv /\ SendingInv /\ StoredInv /\ DeliveredInv

`ClaimsInv` (an update at work is in flight, not completed, and no other thread
has it) is what the ledger gives the pipeline.  Its converse, `ClaimsAreHeld`, is
the safety half of `ClaimsAreReturned`: a claim is never left behind but by
`Cancelled`.  `ChatsInv` says of the chat a
thread holds that it exists, and that its owner is the account of the thread *or
nobody*: `Relink` changes the identity but not the account the thread has read,
and a deleted chat is never owned again, so the two-step check and insert of
`save_chat_message` stays within one account (`OwnChats`).  `StoredBy` in
`StoredInv` is the induction hypothesis for messages: from `run` on the question is
stored, from `send` on the answer, unless the chat is gone.  `DeliveredInv`
strengthens `NoFreeDuplicates`: an update that used up its allowance is completed or
in the hands of a thread that is about to complete it, which needs the
exclusiveness of `ClaimsInv`.

`SourceReads_proofs` proves the three properties of run `sources`, and the types,
for any browsers, threads, sources, keys, limits, windows, readings and backfills
(assumptions: `SourceReadsConstants` and those of the four parts; the pace of MCP
requests has a key of its own, `Pace`).  The parts share only their clock and
the call from one into the next, so the invariant is a conjunction of three, each
proved for its own steps and kept by the steps of the others:

* `SourcesInv`: every session (cookie, memory, request on its way) holds a source
  that was chosen, and a thread's locals come from policies that were in force
  since it began (`offered`), which makes the read of policy, identity, default
  and memory at four different times harmless (`SourcesAreJustified`).
* `LimitersInv`: a deque is a *suffix* of the admitted times, and every time that
  was dropped is older than the window.  The deque need not be sorted, since threads
  read the clock before they take the lock; that the window's *start* only moves
  forward is enough (`LimitsHold`).  `WallBack` moves it back for the limiter that
  goes by the time of day, and reduces `admitted` to the deque, which the limit
  bounds by itself.  For paced requests the one who sleeps
  holds the lock and wakes after the last request has left the window.
* `TelemetryInv`: past the index of the backfill the table is unique, and a row
  before a run's offset is copied or in the page the run still works on
  (`CopiedOnce`).

`McpSession_proofs` proves, for any attempts and reads (assumption:
`SessionConstants`), `NoSecondThread` - the property `OneThread` of run `mcp` - and
the safety halves of the two liveness properties, which are what could be lost
for ever: `StopIsNeverLost` (the thread that `close` joins has ended or still has
a `None` in its queue) and `FreshCallsAreHeld` (a waiting call is in the queue at its
front, with the thread, or answered).  The invariant adds `ProtocolInv`, which
ties the caller's place to the thread's existence and bounds both retry loops,
and `FreshQueue`: the exact content of the queue of a session that opened at its
first attempt.

`AppDb_proofs` proves the four safety properties of run `appdb`, for any threads,
accounts, names, texts, rows, traffic, faults and writes (assumption:
`AppDbConstants`, where two user names are asked for because the initial rows have
two accounts).  It is about SQL in the end, so it has three layers:

* Statements.  `Integrity` says that every row refers to rows that are there and a
  message to a chat of its author; `Follows` adds that no chat changes its owner
  and no id is handed out again.  `InsertedChat`, `DroppedUser` and the other
  lemmas show that each statement of `AppTables` leads from `Integrity` to
  `Follows`.  `PGRows` and `MyRows` show it for every function of the two servers,
  `add_message` under the condition that the chat, if it is there, is the account's.
  `PGAnswers`, `MyAnswers` and `LiteAnswers` show, for each of the sixteen kinds of
  request and each store, that a call whose object is there does not answer that it
  is not.
* Threads.  `Act` is anything a thread does; `ActMoves` shows that it is one of
  five moves (a call starts, goes on, asks the server, asks SQLite, or the reply is
  sent) and touches nobody else's locals.  The invariant's conjuncts are proved
  from the moves instead of from seventeen actions.
* The invariant: `CallInv` (a thread's call is the first or second of its request),
  `WriteInv` (what it may have written where it is: nothing before the server was
  asked or after a read, so a retry, being a read's, repeats no write),
  `RowsInv` (`Integrity` of the server, and between the check and the write of
  `save_chat_message` the chat is the account's or is gone - deleted, never passed
  on - which is why two transactions do), and `HeldInv` (if what the request asks
  for was there at all times, it was there at the time the call was executed).
  `NoDeadPool` is inductive with the moves alone.

`Diagnosis_proofs` proves the types, `EndsOnce` and `BenchmarkRows` of run
`diagnosis`, for any requests, streams and scenarios (assumptions:
`ScenariosAssumption`, that a scenario's mode is one of the seven and that the
governed agents are asked questions of their kind; `NobodyAssumption`, that the
free agent has no client's name):

    IInv == Typed /\ \A c \in Clients : Sound(c)
    Sound(c) == AtRest /\ AtWork /\ OnScript /\ OnHandler /\ OnWire /\ EndsOnceFor

* A handler is a script, a sequence of items, and one continuation for errors.
  `ScriptShape` and `HandlerShape` show what the fourteen scripts have in common: one
  item at most opens the stream and one writes the benchmark's row, both of them
  before the answer, and an error is told and logged once.  `OnScript` and
  `OnHandler` say that what is left to do is a tail of it, and what was done (events,
  rows) is the part before; `OnWire` ties what the client saw to it, a lost
  connection included.
* Agents come in only by their `Outcome` (`AgentSteps`: an agent's step is one
  of its own, keeps the others, and its outcome is none, an answer or an
  error).
* Every action is then one of two moves, an item is done (`Progress`) or fails
  (`Handling`), and each conjunct is proved from the moves.

`DiagnosisAgents_proofs` goes on from there with the agents themselves:

    AInv == IInv /\ MemoryInv /\ CustomInv /\ PolicyInv

and, on top of it, `OpsInv` and then `VInv == CustomAgrees /\ \A c \in Clients : Told(c)`.

* `Moves` reduces the nine actions to four: the agents rest, one starts, makes a
  step, or is closed where a client left it.
* The custom agent (`HistoryIsPaired`, `RunReportsItsOwnUsage`).  The token count
  and the conversation are fields of one object.  `CustomState` says why they can be
  relied on: a reply of `/api/diagnose` holds the thread from its first count to its
  report, so the shared count is its own, and a turn is appended whole, whoever else
  is suspended.
* The LangGraph agent (`ClassifierMatchesRegistry`, its part of
  `PlansAreAuthorizable`; `AnsweredWithEvidence`).
  `PolicyAt` says for each node what the state of the request is, as a function of
  the question and the services only: the tool is what the classifier decides, the
  verdict is the first check that fails, what was read is what that tool reads -
  the simulator too where it falls back (`ReadsOfTool`).
  `DecisionIsRegistered` is the fact about the tables: whatever is decided is
  registered, for that source and intent.  That both drivers end alike
  (`DriversAgree`) follows, since two requests with one question stand at nodes
  that say the same of them; the Ops Graph has the same property
  (`OpsDriversAgree`), its two ways of failing, an exception and an apology, counted
  as one.
* The Ops Graph (`PlansAreAuthorizable`, `RunbookComesFirst`).  `OpsInv` does the same
  for IOA v3: `FullPlan` is the plan a question and the model's proposal lead to,
  `Approved` what of it the policy approves, `Fatal` says which workflow ends the
  request (a failed threshold scan, a snapshot that fails too, an n8n call that
  raises), and `OutputsUpto(k)` and `ReadsUpto(k)` what the first `k` leave,
  snapshots included.  The
  lemmas underneath are about the planner: every rule of the taxonomy and every
  correction of a proposal yields workflows that fit their tool's allowlist
  (`ClassifierFits`, `AdapterIs`, `CorrectedIs`, `DeterministicIs`, `NormalizedIs`,
  `PlansAre`), whatever the model proposes.  The assumption is that a proposal is
  a sequence of workflows, of any length and content (`Ops!World`).
* Governance (`AgentsAreGoverned`).  Every edge of a graph (`Edge`, `OpsEdge`) is a move
  of `GovernedWorkflow`, or none, under the refinement mapping of its module, in the
  routes' whole state space: admitted, suspended, failed and closed.  What is read
  outside the grant is read for a granted company database that is down, and is the
  simulator (`StandInsAre`, `OpsStandInsAre`).
* The verdict (`VerdictsAgree`).  Two things can set the endpoints apart.  One is the
  custom agent, where a request whose text refers to a target takes the one that
  another request left, instead of asking the model.  `Fate(t)` and `Seen(t)` say how
  the `t`-th turn ends and what is observed before it as functions of the model's
  replies alone, and `CustomRun` that every request keeps to them; this is inductive
  because a target is only left by a request for which the model named it, and the
  requests of a scenario ask the same question (`MayRefer`).  The other is
  the routes: `Told` ties a final event to an agent that is done or a call that was
  made, and an error to an agent that raised or to a failure `Differ` lists.

`IInv` of each proof module was checked with TLC before it was proved.  No module
declares a RECURSIVE operator.

Model-checked only:

* Liveness: `ClaimsAreReturned` (`updates`), `CloseReturns` and
  `CallsReturnOnFreshSessions` (`mcp`), `CircuitCloses` (`appdb`).  TLAPS does
  not prove fairness arguments (ENABLED) here; the safety halves of the first
  three are proved.
* The five findings, which are counterexamples.

## 5. Where code and expectation disagree

1. **A failure can be silent** (`updates_silent`).  The handler of a thread's
   exception calls `get_telegram_failure_user_id` (`services/telegram_service.py:1144`),
   a database read, outside its `try`.  With the database down it raises too, and
   neither the notice nor `telegram_chat_failed` is sent.
2. **`/link` can restore company access** (`link_self_grant`).  The policy it
   writes back (`services/telegram_link_service.py:123`) is three transactions
   old; a withdrawal in between is undone.  It never invents a right
   (`CompanyByAdmin` holds): the right had been given once.
3. **`/link` can move a sender** (`link_takeover`).  Two codes of two accounts,
   two threads, both read "not linked"; the second upsert wins.  The role does
   not travel (`OperatorByAdmin` holds).
4. **A call can wait for ever** (`mcp_stale_stop`).  A failed first attempt to
   open leaves its `None` in the queue (`services/mcp_client.py:156`), which ends
   the thread of the next attempt after it said it was ready.  A connection that
   breaks between two calls has the same effect: the executor thread takes the
   request and drops it, which is why `CallsReturnOnFreshSessions` excludes it.
5. **Simulator telemetry can carry the company's name** (`diagnosis_fallback`), in two
   ways.  `resolve_agent_operational_context` (`services/diagnose_service.py:130`) reports
   `company_mongodb` as active and hands out no context, so the runtimes that rely
   on the context (v1, custom, LangChain, n8n, Dify) answer from the simulator.
   The governed agents are granted the company source and read it themselves, but
   when the read fails all their tools except the threshold scan return the
   simulator's snapshot (`services/company_data_service.py:1886`, `1905`, `2342`,
   `2979`).  Both graphs validate it as evidence of the company tool and answer, and
   the active source stays `company_mongodb`; only the field `source` of the snapshot
   says otherwise.  TLC stops at the first way; with `Scenarios` restricted to the
   modes of the governed agents it shows the second.

## 6. Plan

The planned modules are built, and every safety property of a run that is expected to
pass is a theorem.  Left:

1. The safety half of `CircuitCloses` (`appdb`), as those of `mcp` and `updates` are:
   what an open circuit could still be waiting for.
2. The assumption that the requests of a scenario ask one question, on which
   `VerdictsAgree` rests: with different questions the target one request leaves is
   another's, and the two endpoints can only be compared request by request.

Not modelled, and why:

* What the company data service makes of its documents, its alert rules, and the
  queries of the MCP observability tools: parsing and arithmetic over payloads.  (What
  it does when a read fails is modelled, in `PolicyGraph` and `OpsGraph`.)  Follow-up suggestions are of that kind too.  (Reading them: the ladder of
  wider windows, 24, 48, 72 hours, cannot be followed by its own suggestions.)
* The loops of v1 and LangChain: a fixed sequence, or inside a library.  Their
  runtimes are one call of a script of `Diagnosis`.
* The readers of telemetry, which change nothing; the random readings and their
  status and alarm rules.
* The cached MongoDB client: its ping is skipped after a failure, which only moves
  the failure to the first real call.
* The migration scripts, which run once and alone; the user interface; wording,
  markdown and layout.
