CONSTANTS
    c1 = c1
    c2 = c2
    c3 = c3
    None = None
    NumWorkers = 2
    Chromosome <- MCChromosome
    Fitness <- MCFitness
    HistoryDepth = 2
    Calls <- MCAllCalls
    MaxCalls = 4
    CreateMayFail = TRUE
SPECIFICATION Spec
INVARIANTS
    TypeOK
    PopulationExclusive
    RoundBarrier
    ChangeOnlyBetweenRounds
PROPERTIES
    PublishOnlyWhileRunning
CHECK_DEADLOCK FALSE
