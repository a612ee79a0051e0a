SPECIFICATION Spec
CONSTANTS
  Workers = {w1, w2}
  Keys = {k1, k2, k3}
  NoKey = NoKey
  Retention = 1
  Capacity = 2
  MaxClock = 3
  MaxCompletions = 4
INVARIANTS TypeOK OneHolderPerUpdate LedgerRemembers
PROPERTIES RefusalIsJustified ImplementsClaims
