CONSTANTS
    Configs <- Models
    Histories <- Conversations
    Answers <- Says
    Faults = {}
SPECIFICATION Spec
INVARIANT PromptReachesModel
CHECK_DEADLOCK FALSE
