SPECIFICATION FairSpec
CONSTANTS
    Message <- Messages
    Size <- SizeOf
    Filter <- Filters
    Matches <- Lets
    MaxItems = 2
    MaxBytes = 3
    Limit = 1
    MaxEntries = 3
    MaxRestarts = 1
    MaxOrders = 2
CHECK_DEADLOCK FALSE
INVARIANTS
    TypeOK
    DropsOnlyExcess
    NothingSkipped
    NothingTwice
PROPERTIES
    EntriesShown
    CursorHeals
