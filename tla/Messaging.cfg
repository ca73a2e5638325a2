SPECIFICATION MCSpec
CONSTANTS
  Me = me
  Event <- SimpleEvents
  Foreign <- SimpleForeign
  RECOVERY_FROM_FILE = TRUE
  MaxRequests = 2
  MaxSubmits = 2
  MaxLog = 3
  MaxRestarts = 0
INVARIANTS
  TypeOK
  AppliedCommitted
  NoDuplicateEdgesAfterRestart
PROPERTY
  CommittedIsApplied
CHECK_DEADLOCK FALSE
