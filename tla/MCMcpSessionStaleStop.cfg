SPECIFICATION Spec
CONSTANTS
  OpenAttempts = 3
  CallAttempts = 3
  MaxReads = 1
  MaxOpenFailures = 1
  MaxBreaks = 0
PROPERTIES CallsReturn
CHECK_DEADLOCK FALSE
