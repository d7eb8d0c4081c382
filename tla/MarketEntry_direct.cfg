SPECIFICATION Spec
CONSTANTS
    Tickets = {t1, t2}
    Aliased = {t2}
    Foreign = {f1}
    Sharing = {s1}
    Engines = {"US100", "Gold"}
    HubMode = FALSE
    LateFills = FALSE
    None = None
PROPERTY
    KeepsOnUnknown
