CONSTANTS
    c1 = c1
    c2 = c2
    c3 = c3
    None = None
    NumWorkers = 2
    Chromosome <- MCChromosome
    Fitness <- MCFitness
    HistoryDepth = 2
    Calls <- MCShippedCalls
    MaxCalls = 1
    CreateMayFail = FALSE
SPECIFICATION FairSpec
INVARIANTS
    StoppedMeansPublished
PROPERTIES
    NeverPublishWorse
    SearchEnds
    ThreadsReturn
    IsSearchService
CHECK_DEADLOCK FALSE
