CONSTANTS
    City <- MCCity
    N <- MCN
    Dist <- MCDist
SPECIFICATION MCSpec
INVARIANTS
    TypeOK
    TakenMatchesChild
    NoCityTwice
    NoCityForgotten
    InheritsNearestEdge
PROPERTIES
    Termination
    BuildsATour
CHECK_DEADLOCK FALSE
