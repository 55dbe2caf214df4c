SPECIFICATION Spec
CONSTANTS
    baseA = baseA
    baseB = baseB
    raw = raw
    none = none
    some = some
    NoFile = NoFile
    Text <- MCText
    Items <- MCItems
    Submitted <- MCSubmitted
    Default <- MCDefault
    Empty = none
    Merge <- MCMerge
    MayFail <- Nothing
    MayFailLate <- Nothing
    ServiceEvents <- Stopping
    MaxFaults = 0
PROPERTIES
    StoppedRemainsStopped
