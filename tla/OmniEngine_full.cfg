\* As OmniEngine.cfg with the type invariant, and any two of the failures together.
CONSTANTS
    MaxLevel = 6
    StartLevel = 3
    MaxTrades = 2
    MaxDays = 1
    OrbHigh = 3
    OrbLow = 2
    Buffer = 1
    SlPts = 1
    TrailPts = 2
    MaxFaults = 2
    MaxOrders = 2
SPECIFICATION Spec
INVARIANTS TypeOK OnePosition NoStopBeyondFirst
CHECK_DEADLOCK FALSE
