SPECIFICATION Spec
CONSTANTS
  NoServer = NoServer
  Server = {A, B, C}
  Value = {x}
  NDEBUG = FALSE
  MaxTerm = 2
  MaxLog = 1
  MaxMessageId = 3
  MaxInFlight = 1
  MaxRestarts = 0
INVARIANT CommittedAgree
