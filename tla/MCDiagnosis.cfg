SPECIFICATION Spec
CONSTANTS
  Clients = {json, stream}
  Streams = {stream}
  Nobody = Nobody
  Scenarios <- AllScenarios
INVARIANTS TypeOK EndsOnce VerdictsAgree BenchmarkRows PlansAreAuthorizable RunbookComesFirst GraphsAgree AnsweredWithEvidence HistoryIsPaired RunReportsItsOwnUsage
PROPERTIES AgentsAreGoverned
