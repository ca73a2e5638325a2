CONSTANTS
    Lifetime = 2
    Networks <- SmallAndRing
    Fresh <- Small
    MaxQueue = 2
    MaxFaults = 2
    MaxPolls = 0

SPECIFICATION Spec
CHECK_DEADLOCK FALSE

INVARIANT
    FloodHasNoLoop
