CONSTANTS
    NoFlow = NoFlow
    Miss = Miss
    MaxDuration = 4
    IdleShort = 1
    IdleLong = 2
    HardShort = 2
    HardLong = 3
    Packets <- SomePackets
    Pipelines <- BothPipelines
    MaxCookie = 3
    MaxArrivals = 3
    MaxQueue = 2
    MaxFaults = 0

SPECIFICATION Spec
CHECK_DEADLOCK FALSE

INVARIANT
    UnexploredReachesController
