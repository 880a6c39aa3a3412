SPECIFICATION Spec
CONSTANTS
    Definitions <- Fans
    Edits <- NoEdits
    MaxConcurrent = 2
    MaxFails = 0
PROPERTY ReadsUndisturbed
CHECK_DEADLOCK FALSE
