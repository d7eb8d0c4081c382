SPECIFICATION FairSpec
CONSTANTS
    Ids = {o1, o2}
    BookFails = TRUE
    LostReplies = {"place", "modify"}
    MaxStop = 2
    MaxRestarts = 1
    None = None
INVARIANTS
    TypeOK
    NothingForgotten
    PlacesEmptyHanded
    CopyNoTighter
PROPERTIES
    LeavesOnlyFlat
    WindowEnds
CHECK_DEADLOCK FALSE
