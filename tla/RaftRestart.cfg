SPECIFICATION Spec
CONSTANTS
  NoServer = NoServer
  Server = {A, B}
  Value = {x}
  NDEBUG = FALSE
  MaxTerm = 2
  MaxLog = 2
  MaxMessageId = 4
  MaxInFlight = 2
  MaxRestarts = 1
SYMMETRY Symmetry
INVARIANTS
  TypeOK
  StorageConsistent
  NoExit
PROPERTY
  NodePromise
