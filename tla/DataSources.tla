----------------------------- MODULE DataSources -----------------------------
(***************************************************************************)
(* Which data source a request of one account runs on: the account's       *)
(* policy in the database, the browsers' session cookies, the selection    *)
(* the server remembers for Telegram (routes/telemetry_routes.py) and the  *)
(* sender's identity (services/telegram_service.py).                       *)
(*                                                                         *)
(* Web requests are handled one at a time; Telegram threads and the        *)
(* administrator's script run between any two database transactions.       *)
(***************************************************************************)
EXTENDS Integers, FiniteSets

CONSTANTS
  Workers,     \* threads with an update of the account's Telegram sender
  Browsers,    \* browsers logged in to the account
  MaxGrants,   \* bound on runs of the grant script
  MaxRequests  \* bound on the requests a browser has under way

ASSUME DataSourcesConstants == {MaxGrants, MaxRequests} \subseteq Nat

Sources == {"simulator", "company"}

VARIABLES
  policy,      \* users.allowed_data_sources of the account, normalised
  identity,    \* allowed_data_sources of the sender's identity, {} without one
  granting,    \* what the grant script still has to write, {} when it does not run
  grants,      \* runs of the grant script so far
  cookie,      \* selected_data_source and selected_data_source_explicit, by browser
  remembered,  \* _user_data_sources and _user_data_source_explicit of the account
  sent,        \* requests on their way, with the cookie they were sent with
  web,         \* the request being handled, and its locals
  thread,      \* locals of each Telegram thread
  offered,     \* history: policies in force since the thread began
  chosen       \* history: sources a browser was allowed to select

rows == <<policy, identity, granting, grants>>
site == <<cookie, remembered, sent, web>>
sources == <<rows, site, thread, offered, chosen>>

Selection == [source : Sources, explicit : BOOLEAN]
Unselected == [source |-> "simulator", explicit |-> FALSE]

Pages == {"select", "current", "devices", "prompts"}
Request == [browser : Browsers, page : Pages, wanted : Sources, session : Selection]
Handling ==
  [at : {"check", "selected", "default", "remember", "read", "timed"}, browser : Browsers,
   page : Pages, wanted : Sources, session : Selection, changed : BOOLEAN]
Idle == [at |-> "idle"]

Worker ==
  [at : {"idle", "allowed", "default", "memory", "ran", "timed"},
   identity : SUBSET Sources, allowed : SUBSET Sources, source : Sources]
NoUpdate == [at |-> "idle", identity |-> {}, allowed |-> {}, source |-> "simulator"]

SourcesTypeOK ==
  /\ policy \in {{"simulator"}, Sources}
  /\ identity \in SUBSET Sources
  /\ granting \in SUBSET Sources
  /\ grants \in 0..MaxGrants
  /\ cookie \in [Browsers -> Selection]
  /\ remembered \in Selection
  /\ sent \subseteq Request
  /\ web \in {Idle} \union Handling
  /\ thread \in [Workers -> Worker]
  /\ offered \in [Workers -> SUBSET {{"simulator"}, Sources}]
  /\ chosen \subseteq Sources

\* Earlier grants, to this sender or to another sender of the account, may
\* have left any identity beside any policy.
SourcesInit ==
  /\ policy \in {{"simulator"}, Sources}
  /\ identity \in SUBSET Sources
  /\ granting = {}
  /\ grants = 0
  /\ cookie = [b \in Browsers |-> Unselected]
  /\ remembered = Unselected
  /\ sent = {}
  /\ web = Idle
  /\ thread = [w \in Workers |-> NoUpdate]
  /\ offered = [w \in Workers |-> {}]
  /\ chosen = {}

-----------------------------------------------------------------------------
(* The policy. *)

\* The sources of normalize_user_data_source_policy.
normalize(allowed) == allowed \union {"simulator"}

\* default_data_source of a normalised policy, as get_default_data_source returns it.
default_source(allowed) == IF "company" \in allowed THEN "company" ELSE "simulator"

\* upsert_telegram_identity.py for the sender, or for another sender of the account.
GrantIdentity(granted, same) ==
  /\ granting = {}
  /\ grants < MaxGrants
  /\ identity' = IF same THEN granted ELSE identity
  /\ granting' = granted
  /\ grants' = grants + 1
  /\ UNCHANGED <<policy, site, thread, offered, chosen>>

\* Its second transaction, update_user_data_source_policy.
GrantPolicy ==
  /\ granting # {}
  /\ policy' = normalize(granting)
  /\ granting' = {}
  /\ offered' = [w \in Workers |->
       IF thread[w].at = "idle" THEN {} ELSE offered[w] \union {policy'}]
  /\ UNCHANGED <<identity, grants, site, thread, chosen>>

-----------------------------------------------------------------------------
(* The web server. *)

\* The browser sends its cookie as it is now.
Send(b, page, wanted) ==
  /\ Cardinality({r \in sent : r.browser = b}) < MaxRequests
  /\ page # "select" => wanted = "simulator"
  /\ sent' = sent \union
       {[browser |-> b, page |-> page, wanted |-> wanted, session |-> cookie[b]]}
  /\ UNCHANGED <<rows, cookie, remembered, web, thread, offered, chosen>>

Accept(r) ==
  /\ web = Idle
  /\ sent' = sent \ {r}
  /\ web' = [at |-> IF r.page = "select" THEN "check" ELSE "selected",
             browser |-> r.browser, page |-> r.page, wanted |-> r.wanted,
             session |-> r.session, changed |-> FALSE]
  /\ UNCHANGED <<rows, cookie, remembered, thread, offered, chosen>>

\* POST /api/data-source: the first read of the policy.  Once it has its
\* session the request goes on like a GET of the page; when it is refused it
\* only looks up the selected source, as /api/prompts does.
CheckWanted ==
  /\ web.at = "check"
  /\ LET next(page) == [web EXCEPT !.at = "selected", !.page = page, !.wanted = "simulator"]
     IN IF web.wanted \in policy
        THEN /\ web' = [next("current") EXCEPT !.changed = TRUE,
                          !.session = [source |-> web.wanted, explicit |-> TRUE]]
             /\ chosen' = chosen \union {web.wanted}
        ELSE /\ web' = next("prompts")
             /\ UNCHANGED chosen
  /\ UNCHANGED <<rows, cookie, remembered, sent, thread, offered>>

\* get_selected_data_source: an explicit selection counts while the policy allows it.
SelectedSource ==
  /\ web.at = "selected"
  /\ web' = [web EXCEPT !.at =
       IF web.session.explicit /\ web.session.source \in policy THEN "remember" ELSE "default"]
  /\ UNCHANGED <<rows, cookie, remembered, sent, thread, offered, chosen>>

SelectDefault ==
  /\ web.at = "default"
  /\ web' = [web EXCEPT !.at = "remember", !.changed = TRUE,
               !.session = [source |-> default_source(policy), explicit |-> FALSE]]
  /\ UNCHANGED <<rows, cookie, remembered, sent, thread, offered, chosen>>

\* The response carries the session back if the request changed it.
Respond ==
  /\ cookie' = IF web.changed THEN [cookie EXCEPT ![web.browser] = web.session] ELSE cookie
  /\ web' = Idle

\* remember_user_data_source, on the pages that call it.
Remember ==
  /\ web.at = "remember"
  /\ remembered' = IF web.page = "prompts" THEN remembered ELSE web.session
  /\ IF web.page = "devices" /\ web.session.source = "company"
     THEN web' = [web EXCEPT !.at = "read"] /\ UNCHANGED cookie
     ELSE Respond
  /\ UNCHANGED <<rows, sent, thread, offered, chosen>>

\* get_devices has its payload.
Payload ==
  /\ web.at = "read"
  /\ Respond
  /\ UNCHANGED <<rows, remembered, sent, thread, offered, chosen>>

-----------------------------------------------------------------------------
(* A Telegram thread: process_telegram_update with get_user_selected_data_source. *)

At(w, l) == thread[w].at = l
Done(w) ==
  /\ thread' = [thread EXCEPT ![w] = NoUpdate]
  /\ offered' = [offered EXCEPT ![w] = {}]

\* resolve_telegram_identity.
ReadIdentity(w) ==
  /\ At(w, "idle")
  /\ identity # {}
  /\ thread' = [thread EXCEPT ![w].at = "allowed", ![w].identity = identity]
  /\ offered' = [offered EXCEPT ![w] = {policy}]
  /\ UNCHANGED <<rows, site, chosen>>

\* get_allowed_data_sources.
ReadAllowed(w) ==
  /\ At(w, "allowed")
  /\ thread' = [thread EXCEPT ![w].at = "default", ![w].allowed = policy]
  /\ UNCHANGED <<rows, site, offered, chosen>>

\* get_default_data_source reads the policy once more.
ReadDefault(w) ==
  /\ At(w, "default")
  /\ thread' = [thread EXCEPT ![w].at = "memory", ![w].source = default_source(policy)]
  /\ UNCHANGED <<rows, site, offered, chosen>>

\* Faulty variant: what the web once selected is taken without asking the policy.
pick_remembered(w) ==
  IF remembered.explicit THEN remembered.source ELSE thread[w].source

\* The rest of get_user_selected_data_source, with the lock.
pick(w) ==
  IF remembered.explicit /\ remembered.source \in thread[w].allowed
  THEN remembered.source
  ELSE thread[w].source

\* data_source_is_allowed refuses, or the agent runs on the source.
PickSource(w) ==
  /\ At(w, "memory")
  /\ IF pick(w) \in thread[w].identity
     THEN /\ thread' = [thread EXCEPT ![w] = [NoUpdate EXCEPT !.at = "ran", !.source = pick(w)]]
          /\ UNCHANGED offered
     ELSE Done(w)
  /\ UNCHANGED <<rows, site, chosen>>

Answered(w) ==
  /\ At(w, "ran")
  /\ Done(w)
  /\ UNCHANGED <<rows, site, chosen>>

\* Cookies and rows outlive the server, the rest is its memory.
SourcesLost ==
  /\ remembered' = Unselected
  /\ sent' = {}
  /\ web' = Idle
  /\ thread' = [w \in Workers |-> NoUpdate]
  /\ offered' = [w \in Workers |-> {}]
  /\ UNCHANGED <<rows, cookie, chosen>>

-----------------------------------------------------------------------------
\* A Telegram request runs on a source that one policy in force since it began
\* allowed, and that was this policy's default or a browser's own selection;
\* nothing remembered, read earlier or changed meanwhile makes it run on another.
SourceWasJustified ==
  \A w \in Workers :
    thread[w].at \in {"ran", "timed"} =>
      \E allowed \in offered[w] :
        /\ thread[w].source \in allowed
        /\ thread[w].source \in chosen \union {default_source(allowed)}
=============================================================================
