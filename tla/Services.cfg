SPECIFICATION MCSpec
CONSTANTS
    HashBits = 4
    NoIp = "none"
    Nothing = Nothing
    MaxPort = 2
    MaxAsked = 1
    MaxQueue = 2
    PortMac <- MCPortMac
    Flows <- MCFlows
    Scenarios <- MCScenarios
INVARIANTS ViewsFollow ClientCatchesUp StatisticsAreOwn RegistrationsKept
PROPERTIES ViewConverges GetEnds
CHECK_DEADLOCK FALSE
