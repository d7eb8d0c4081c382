\* Two days, an ATR below the fixed distances, eleven prices, a plan of 0.04 lots.
CONSTANTS
    Atr = 8
    SlPts = 40
    TpPts = 20
    TimeLimit = 3
    Planned = 4
    Gains = {2, 8, 12, 16, 22, 32, 45}
    Losses = {5, 13, 25, 45}
    ExitCost = 1
    MaxDays = 2
SPECIFICATION Spec
INVARIANTS PyramidsScaleIn
CHECK_DEADLOCK FALSE
