CONSTANTS
    NumVehicles = 3
    NumStops = 4
    MaxInner = 2
    Turns = 1
    AccuPay = 5
    Pays = {6, 20}
    Garbage = {6}
    ArraySize = 3
    MaxCalls = 2
    Copy <- MCCopy
SPECIFICATION FairSpec
INVARIANTS
    TypeOK
    SectionsCoverStops
    PaysAddUp
    RecallNeedsOtherReads
    DeliveredOnce
    RoutesStartAtDepot
    OwnDistances
PROPERTY
    ResearchEnds
CHECK_DEADLOCK FALSE
