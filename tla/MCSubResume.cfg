SPECIFICATION Spec
CONSTANTS
    Definitions <- Subs
    Edits <- NoEdits
    MaxConcurrent = 2
    MaxFails = 0
INVARIANT EndsAlike
CHECK_DEADLOCK FALSE
