CONSTANTS
    v1 = v1
    v2 = v2
    p1 = p1
    p2 = p2
    L1 = L1
    L2 = L2
    group = group
    s1 = s1
    s2 = s2
    s4 = s4
    s5 = s5
    nowhere = nowhere
    None = None
    Order <- MCOrder
    ErrorOrder <- MCErrorOrder
    SiteOf <- MCSiteOf
    GroupOf <- MCGroupOf
    OrderLocation <- MCOrderLocation
    AllocatedTo <- MCAllocatedTo
    VehicleOf <- MCVehicleOf
    LocationOf <- MCLocationOf
    KnownLeg <- MCKnownLeg
    Vehicle = {v1, v2}
    Process = {p1, p2}
    MaxRuns = 1
SPECIFICATION Spec
INVARIANT
    CompleteMeansWritten
CHECK_DEADLOCK FALSE
