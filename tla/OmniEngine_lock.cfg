\* The floor breach: one day, two trades, one floor breach, restart or late modification, two resting stop orders.
CONSTANTS
    MaxLevel = 6
    StartLevel = 3
    MaxTrades = 2
    MaxDays = 1
    OrbHigh = 3
    OrbLow = 2
    Buffer = 1
    SlPts = 1
    TrailPts = 2
    MaxFaults = 1
    MaxOrders = 2
SPECIFICATION Spec
PROPERTIES LockHolds
CHECK_DEADLOCK FALSE
