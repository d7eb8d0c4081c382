SPECIFICATION Spec
CONSTANTS
    Ids = {o1, o2}
    BookFails = TRUE
    LostReplies = {"modify"}
    MaxStop = 2
    MaxRestarts = 1
    None = None
PROPERTY
    NeverLoosened
CHECK_DEADLOCK FALSE
