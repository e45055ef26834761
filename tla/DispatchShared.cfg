CONSTANTS
    v1 = v1
    v2 = v2
    p1 = p1
    p2 = p2
    L1 = L1
    L2 = L2
    group = group
    s1 = s1
    s2 = s2
    s4 = s4
    s5 = s5
    nowhere = nowhere
    None = None
    Order <- SharedOrder
    ErrorOrder <- SharedErrorOrder
    SiteOf <- SharedSiteOf
    GroupOf <- SharedGroupOf
    OrderLocation <- SharedOrderLocation
    AllocatedTo <- SharedAllocatedTo
    VehicleOf <- SharedVehicleOf
    LocationOf <- SharedLocationOf
    KnownLeg <- SharedKnownLeg
    Vehicle = {v1}
    Process = {p1, p2}
    MaxRuns = 2
SPECIFICATION Spec
SYMMETRY SharedSymmetry
INVARIANTS
    OrdersKept
    LegsChain
CHECK_DEADLOCK FALSE
