SPECIFICATION CollectorSpec
CONSTANTS
    c1 = c1
    c2 = c2
    destination = destination
    a = a
    b = b
    other = other
    Connection <- TwoConnections
    Dimension <- OneDimension
    Key <- Values
    Other = other
    KeyOf <- OwnValues
    PendingLimit = 1
    KeyLimit = 1
    Retention = 5
    MinutesPerDay = 1
    LastMinute = 1
    MaxSamples = 1
    MaxFaults = 1
    Never = 99
INVARIANTS
    CollectorTypeOK
    ReportedOnce
    ReportedIsClosed
PROPERTIES
    NothingDropped
    SeenIsRecorded
    DisconnectShown
    ImplementsLedger
