CONSTANTS
    c1 = c1
    c2 = c2
    c3 = c3
    c4 = c4
    None = None
    Chromosome <- MCChromosome
    Fitness <- MCFitness
    Mate <- MCMate
    PopulationSize = 4
    SelectionSize = 2
    Offsprings = 3
    ReplacementSize = 2
    Elitism = 2
    NumWorkers = 3
SPECIFICATION Spec
INVARIANT
    EverySlotFilledOnce
PROPERTIES
    NoNewTwins
    EliteNeverWorsens
    OnlyProgressIsReported
