CONSTANTS
    c1 = c1
    c2 = c2
    c3 = c3
    None = None
    NumWorkers = 1
    Chromosome <- MCChromosome
    Fitness <- MCFitness
    HistoryDepth = 2
    Calls <- MCShippedCalls
    MaxCalls = 1
    CreateMayFail = FALSE
SPECIFICATION Spec
INVARIANT
    DestructorStopsOthers
CHECK_DEADLOCK FALSE
