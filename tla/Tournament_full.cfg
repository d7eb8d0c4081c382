\* Two profiles, one exported; ratios and drawdowns on both sides of their limits.
CONSTANTS
    Setups = {s1}
    FilterCombos = {{}, {"day_of_week"}}
    Instruments = {nas}
    Windows = {1, 2}
    Sharpes = {0, 10, 11}
    Drawdowns = {79, 80}
    TopN = 1
SPECIFICATION TournamentSpec
INVARIANTS ExportedAreBest QualifiedAreGood
CHECK_DEADLOCK FALSE
