CONSTANTS
    r1 = r1
    Steps = {1, 2, 3}
    Kind <- Mixed
    DependsOn <- Fork4
    Conditional = {2}
    NoResume = {1, 2}
    Shell = {1}
    Output <- AnyOf
    Runs = {r1}
    Roots = {r1}
    LiveForks = FALSE
    WhenErrors = FALSE
    MaxFaults = 0
SPECIFICATION Spec
INVARIANT SkippedIsTerminal
CHECK_DEADLOCK FALSE
