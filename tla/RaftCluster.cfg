SPECIFICATION MCSpec
CONSTANTS
  NoServer = NoServer
  Server = {A, B, C}
  Joining = {D}
  Value = {x, y}
  NDEBUG = FALSE
  MaxTerm = 2
  MaxLog = 1
  MaxMessageId = 3
  MaxInFlight = 1
  MaxRestarts = 0
SYMMETRY Symmetry
INVARIANTS
  EntryTermsBounded
  LeaderConsistent
  FirstElectionSafetyOfFour
PROPERTY
  LeaderAppendOnly
