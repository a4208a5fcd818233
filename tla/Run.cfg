CONSTANTS
    Steps = {1, 2}
    Kind <- AgentTool
    DependsOn <- Chain
    Conditional = {2}
    NoResume = {2}
    Shell = {}
    Output <- NoOutputs
    Runs = {"r1", "r2"}
    Roots = {"r1"}
    LiveForks = TRUE
    WhenErrors = FALSE
    MaxFaults = 1
SPECIFICATION AnySpec
INVARIANTS AnyTypeOK CallsKeptApart ModelSeesTheRun DeclaredIsRun PipelineReadAsWritten FrozenIsGenuine NoEffectTwice
CHECK_DEADLOCK FALSE
