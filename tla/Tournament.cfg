\* Three profiles over two windows, two of which are exported; good, bad and failed backtests,
\* equal scores included.
CONSTANTS
    Setups = {s1}
    FilterCombos = {{}, {"day_of_week"}, {"day_of_week", "spread_gate"}}
    Instruments = {nas}
    Windows = {1, 2}
    Sharpes = {0, 10}
    Drawdowns = {79}
    TopN = 2
SPECIFICATION TournamentSpec
INVARIANTS ExportedAreBest
CHECK_DEADLOCK FALSE
