\* Candles around a range of 40 points, at its edges, at the spreads and buffers; no
\* ATR, one at which the 1 % cap of the volatility model binds, and one above 25.
CONSTANTS
    Atr = 8
    SlPts = 40
    TpPts = 20
    TimeLimit = 3
    Planned = 4
    Levels = {8, 17, 19, 20, 22, 40, 58, 60, 61, 63, 73}
    Low = 20
    High = 60
    Widths = {0, 3, 4, 5, 15, 16, 17}
    Balances = {97999, 98000, 102000}
    Atrs = {0, 8, 30}
    Results = {1, 20}
SPECIFICATION StrategySpec
INVARIANTS EnteredWhereTraded FilterCopiesAgree SizingCopiesAgree LossWithinPercent
CHECK_DEADLOCK FALSE
