---------------------------- MODULE MCSourceReads ----------------------------
EXTENDS SourceReads, TLC

MCKeys == {Reads, Login, Route, Diagnose, Pace}
MCWallTimed == {Diagnose}
MCCallers == Workers \union {Web}
MCLimit == [k \in MCKeys |-> IF k \in {Route, Pace} THEN 1 ELSE 2]
MCWindow == [k \in MCKeys |-> 2]

\* Policies and selections while company_data_access_mode is "mcp"; a server
\* that restarts; direct reads under time, and beside the web server; the
\* limiters of the web routes under time, and while the time of day is set;
\* requests to the MCP server; the simulator and two runs of the backfill script.
MCTraffic ==
  {[kinds |-> {"administer", "browse"}, threads |-> 1],
   [kinds |-> {"browse", "restart"}, threads |-> 1],
   [kinds |-> {"direct", "restart", "time"}, threads |-> 2],
   [kinds |-> {"browse", "direct"}, threads |-> 1],
   [kinds |-> {"routes", "time"}, threads |-> 0],
   [kinds |-> {"routes", "wall"}, threads |-> 0],
   [kinds |-> {"mcp", "restart", "time"}, threads |-> 2],
   [kinds |-> {"telemetry"}, threads |-> 0]}

Threads == Permutations(Workers) \union Permutations(Backfills)
=============================================================================
