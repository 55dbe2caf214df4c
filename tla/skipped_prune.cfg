SPECIFICATION Spec
CONSTANTS
    c1 = c1
    c2 = c2
    c3 = c3
    destination = destination
    a = a
    b = b
    other = other
    Connection <- ThreeConnections
    Dimension <- OneDimension
    Key <- Values
    Other = other
    KeyOf <- ThreeValues
    PendingLimit = 1
    KeyLimit = 1
    Retention = 1
    MinutesPerDay = 2
    LastMinute = 3
    MaxSamples = 1
    MaxFaults = 1
    Never = 99
PROPERTIES
    PrunedByFlush
