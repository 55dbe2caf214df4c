SPECIFICATION Spec
CONSTANTS
    Character <- Characters
    Scalar <- Scalars
    Item <- Items
    MaxDepth = 1
    Document <- Documents
    Unreadable = Unreadable
    Override <- Overrides
    SocketKey <- SocketRaw
    SocketPath <- Socket
    MaxOverrides = 2
CHECK_DEADLOCK FALSE
INVARIANTS
    TypeOK
    MergedAsDocumented
    PositionsKept
    Addressable
