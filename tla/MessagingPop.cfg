SPECIFICATION MCSpec
CONSTANTS
  Me = me
  Event <- SimpleEvents
  Foreign <- SimpleForeign
  RECOVERY_FROM_FILE = TRUE
  MaxRequests = 1
  MaxSubmits = 1
  MaxLog = 2
  MaxRestarts = 0
PROPERTY PopOnlyCommitted
CHECK_DEADLOCK FALSE
