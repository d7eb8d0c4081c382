SPECIFICATION Spec
CONSTANTS
    Ids = {o1, o2}
    BookFails = TRUE
    LostReplies = {}
    MaxStop = 2
    MaxRestarts = 1
    None = None
INVARIANT
    AccountedFor
CHECK_DEADLOCK FALSE
