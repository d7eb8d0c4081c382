\* Two trades from just above the daily limit; ATRs at which the cap of 50 lots binds
\* and does not; a floor below and one above the daily limit.
CONSTANTS
    Levels = {100, 120, 131, 160, 190, 250}
    Atrs = {10, 15, 20}
    DayStart = 10000000
    Starts = {9600000}
    Floors = {9000000, 9550000}
    MaxTrades = 2
SPECIFICATION Spec
INVARIANTS HaltsFlat LossBounded
CHECK_DEADLOCK FALSE
