\* The hour after the session: as LondonEngine.cfg, without a restart.
CONSTANTS
    MaxLevel = 4
    StartLevel = 2
    MaxTrades = 2
    MaxDays = 1
    RangeHigh = 3
    RangeLow = 1
    SlPts = 1
    MaxRestarts = 0
    MaxOrders = 2
SPECIFICATION Spec
PROPERTIES FlattenCloses
CHECK_DEADLOCK FALSE
