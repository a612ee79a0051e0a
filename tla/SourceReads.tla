----------------------------- MODULE SourceReads -----------------------------
(***************************************************************************)
(* Data-source selection composed with the rate limiters: a request that   *)
(* was given the company source reads the company's MongoDB directly,      *)
(* through CompanyMongoReadProxy, whose limiter all threads share, or asks *)
(* the MCP server, whose requests all threads pace; the web routes have    *)
(* limiters of their own.  The simulator, which the payload falls back to,   *)
(* writes its telemetry and is backfilled meanwhile.                       *)
(***************************************************************************)
EXTENDS DataSources, McpPacing, TelemetryStore

CONSTANTS
  Reads,    \* key of a proxied read: actor and operation
  Login,    \* key of /api/login: address and user name
  Route,    \* key of the MongoDB routes: the user
  Diagnose, \* key of the diagnosis routes: the user
  Web,      \* the web server among the callers
  Traffic   \* bound: what goes on together, and in how many Telegram threads

ASSUME SourceReadsConstants ==
  /\ Keys = {Reads, Login, Route, Diagnose, Pace}
  /\ WallTimed = {Diagnose}
  /\ Diagnose \notin {Reads, Login, Route, Pace}
  /\ Callers = Workers \union {Web}
  /\ Web \notin Workers
  /\ Pace \notin {Reads, Login, Route}
  /\ Traffic \subseteq [kinds : SUBSET {"administer", "browse", "direct", "mcp", "restart", "routes",
                                     "telemetry", "time", "wall"},
                   threads : Nat]

VARIABLE traffic  \* the choice from Traffic

vars == <<sources, limiters, calls, telemetry, traffic>>

Init ==
  /\ SourcesInit
  /\ LimitersInit
  /\ CallsInit
  /\ TelemetryInit
  /\ traffic \in Traffic

TypeOK ==
  /\ SourcesTypeOK
  /\ LimitersTypeOK
  /\ CallsTypeOK
  /\ TelemetryTypeOK
  /\ traffic \in Traffic

-----------------------------------------------------------------------------
(* Direct reads of the company's MongoDB: the check, then the query.  A     *)
(* refusal is an exception; the payload falls back to the simulator's.      *)

WorkerStamps(w) ==
  /\ At(w, "ran")
  /\ thread[w].source = "company"
  /\ ReadClock(w)
  /\ thread' = [thread EXCEPT ![w].at = "timed"]
  /\ UNCHANGED <<rows, site, offered, chosen>>

WorkerReads(w) ==
  /\ At(w, "timed")
  /\ Admit(Reads, stamp[w]) \/ Refuse(Reads, stamp[w])
  /\ Forget(w)
  /\ thread' = [thread EXCEPT ![w].at = "ran"]
  /\ UNCHANGED <<rows, site, offered, chosen>>

WebStamps ==
  /\ web.at = "read"
  /\ ReadClock(Web)
  /\ web' = [web EXCEPT !.at = "timed"]
  /\ UNCHANGED <<rows, cookie, remembered, sent, thread, offered, chosen>>

WebReads ==
  /\ web.at = "timed"
  /\ Admit(Reads, stamp[Web]) \/ Refuse(Reads, stamp[Web])
  /\ Forget(Web)
  /\ web' = [web EXCEPT !.at = "read"]
  /\ UNCHANGED <<rows, cookie, remembered, sent, thread, offered, chosen>>

-----------------------------------------------------------------------------
(* The limiters of the web routes. *)

\* /api/login with a wrong password or a right one, or one attempt too many.
ApiLogin ==
  /\ web = Idle
  /\ CheckAlone(Login) \/ LoginAdmitted(Login)

\* check_mongo_read_rate_limit.
ApiMongo ==
  /\ web = Idle
  /\ CheckAlone(Route)

\* check_diagnose_rate_limit, by the time of day.
ApiDiagnose ==
  /\ web = Idle
  /\ CheckAlone(Diagnose)

\* A process goes, a new one comes.
Restart == SourcesLost /\ LimitersLost /\ CallsLost

Administer ==
  \/ \E granted \in SUBSET Sources \ {{}}, same \in BOOLEAN : GrantIdentity(granted, same)
  \/ GrantPolicy

Browse ==
  \/ \E b \in Browsers, page \in Pages, wanted \in Sources : Send(b, page, wanted)
  \/ \E r \in sent : Accept(r)
  \/ CheckWanted \/ SelectedSource \/ SelectDefault \/ Remember \/ Payload

Chat == \E w \in Workers :
  \/ ReadIdentity(w) /\ Cardinality({v \in Workers : ~At(v, "idle")}) < traffic.threads
  \/ ReadAllowed(w) \/ ReadDefault(w) \/ PickSource(w)
  \/ Answered(w) /\ InCall(w, "none")

ReadCompany ==
  \/ \E w \in Workers : WorkerStamps(w) \/ WorkerReads(w)
  \/ WebStamps \/ WebReads

AskMcp == \E w \in Workers :
  \/ At(w, "ran") /\ thread[w].source = "company" /\ CallTool(w)
  \/ TakeLock(w) \/ Paced(w) \/ Returned(w) \/ RateLimited(w) \/ AskAgain(w)

Active(kind) == kind \in traffic.kinds

Next ==
  /\ \/ /\ \/ Active("administer") /\ Administer /\ UNCHANGED <<limiters, calls>>
           \/ Active("browse") /\ Browse /\ UNCHANGED <<limiters, calls>>
           \/ Chat /\ UNCHANGED <<limiters, calls>>
           \/ Active("direct") /\ ReadCompany /\ UNCHANGED calls
           \/ Active("mcp") /\ AskMcp /\ UNCHANGED sources
           \/ Active("routes") /\ (ApiLogin \/ ApiMongo \/ ApiDiagnose) /\ UNCHANGED <<sources, calls>>
           \/ Active("time") /\ Tick /\ UNCHANGED <<sources, calls>>
           \/ Active("wall") /\ (WallForward \/ WallBack) /\ UNCHANGED <<sources, calls>>
           \/ Active("restart") /\ Restart
        /\ UNCHANGED telemetry
     \/ Active("telemetry") /\ Telemetry /\ UNCHANGED <<sources, limiters, calls>>
  /\ UNCHANGED traffic

Spec == Init /\ [][Next]_vars
=============================================================================
