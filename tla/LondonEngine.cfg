\* One day, two trades, two resting orders, one restart.
CONSTANTS
    MaxLevel = 4
    StartLevel = 2
    MaxTrades = 2
    MaxDays = 1
    RangeHigh = 3
    RangeLow = 1
    SlPts = 1
    MaxRestarts = 1
    MaxOrders = 2
SPECIFICATION Spec
PROPERTIES EntersEmptyBook OnePair TradedDayIsOver OppositesCanceled
CHECK_DEADLOCK FALSE
