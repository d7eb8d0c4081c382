SPECIFICATION FairSpec
CONSTANTS
    Ids = {o1, o2}
    BookFails = TRUE
    LostReplies = {"place", "modify"}
    MaxStop = 2
    MaxRestarts = 1
    None = None
CHECK_DEADLOCK FALSE
INVARIANTS
    NothingForgotten
PROPERTIES
    LeavesOnlyFlat
    WindowEnds
