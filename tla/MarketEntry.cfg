SPECIFICATION FairSpec
CONSTANTS
    Tickets = {t1, t2}
    Aliased = {t2}
    Foreign = {f1}
    Sharing = {s1}
    Engines = {"US100", "Gold"}
    HubMode = TRUE
    LateFills = FALSE
    None = None
INVARIANTS
    NoDoubleBook
    OneTradePerDay
    PendingHoldsSetup
PROPERTIES
    NoFillForgotten
    KeepsOnUnknown
    AttemptReconciled
