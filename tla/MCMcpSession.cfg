SPECIFICATION Spec
CONSTANTS
  OpenAttempts = 3
  CallAttempts = 3
  MaxReads = 3
  MaxOpenFailures = 4
  MaxBreaks = 1
PROPERTIES OneThread CloseReturns CallsReturnOnFreshSessions
CHECK_DEADLOCK FALSE
