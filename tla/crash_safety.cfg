SPECIFICATION FairSpec
CONSTANTS
    baseA = baseA
    baseB = baseB
    raw = raw
    none = none
    some = some
    NoFile = NoFile
    Text <- MCText
    Items <- MCItems
    Submitted <- MCSubmitted
    Default <- MCDefault
    Empty = none
    Merge <- MCMerge
    MayFail <- TolerableFail
    MayFailLate <- TolerableFailLate
    ServiceEvents <- AllEvents
    MaxFaults = 2
INVARIANTS
    TypeOK
    JournalRecovers
    ServingInSync
    ErrorsChangeNothing
    ReloadedIsLoaded
PROPERTIES
    AppliedIsCommitted
    FoundStoppedStays
    ImplementsAtomic
    JournalResolved
    ServesAgain
