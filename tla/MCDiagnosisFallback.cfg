SPECIFICATION Spec
CONSTANTS
  Clients = {json, stream}
  Streams = {stream}
  Nobody = Nobody
  Scenarios <- AllScenarios
INVARIANTS SimulatorIsNotCompany
