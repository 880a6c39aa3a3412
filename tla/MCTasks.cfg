SPECIFICATION FairSpec
CONSTANTS
    Definitions <- Workflows
    Edits <- Edited
    MaxConcurrent = 2
    MaxFails = 1
INVARIANTS TypeOK BranchesStayOut WaitsForItsOwn EndsAlike RecordsAll
PROPERTIES CancelEnds
CHECK_DEADLOCK FALSE
