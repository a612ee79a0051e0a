SPECIFICATION Spec
CONSTANTS
  Workers = {w1, w2}
  Web = web
  Traffic <- MCTraffic
  Browsers = {b1}
  Reads = reads
  Login = login
  Route = route
  Diagnose = diagnose
  WallTimed <- MCWallTimed
  Pace = pace
  McpAttempts = 2
  Free = Free
  Keys <- MCKeys
  Callers <- MCCallers
  Limit <- MCLimit
  Window <- MCWindow
  MaxTime = 4
  Writers = {loop}
  Backends = {"sqlite", "mongodb", "dual"}
  Backfills = {p1, p2}
  BatchSize = 2
  MaxReadings = 3
  MaxBackfills = 2
  MaxGrants = 1
  MaxRequests = 1
INVARIANTS SourceWasJustified LimitHolds BackfillCopiesOnce
SYMMETRY Threads
CHECK_DEADLOCK FALSE
