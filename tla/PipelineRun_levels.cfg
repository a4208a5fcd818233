CONSTANTS
    r1 = r1
    Steps = {1, 2, 3, 4}
    Kind <- Mixed
    DependsOn <- Fork4
    Conditional = {2}
    NoResume = {1, 2}
    Shell = {1}
    Output <- AnyOf
    Runs = {r1}
    Roots = {r1}
    LiveForks = FALSE
    WhenErrors = TRUE
    MaxFaults = 1
SPECIFICATION FairSpec
INVARIANTS TypeOK DepsReady FailFast ToldOnce SuccessEarned NothingOutlives
PROPERTY RunEnds
CHECK_DEADLOCK FALSE
