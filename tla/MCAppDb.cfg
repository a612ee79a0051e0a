SPECIFICATION Spec
CONSTANTS
  Names = {alice, bob, carol}
  Texts = {x, y}
  Room <- Rooms
  web = web
  telegram = telegram
  Threads = {web, telegram}
  Web = web
  Traffic <- Mixes
  CircuitTicks = 2
  MaxFaults = 1
  MaxWrites = 2
INVARIANTS OwnRows WrittenOnce RefusalsAreTrue NoDeadPool
PROPERTIES CircuitCloses
CHECK_DEADLOCK FALSE
