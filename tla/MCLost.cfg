SPECIFICATION FairSpec
CONSTANTS
    parent = parent
    child = child
    first = first
    second = second
    Runs = {parent, child}
    TopLevel = {parent}
    Cancels = {parent}
    Queue <- NoQueue
    Steps <- FamilySteps
    MaxSettledRuns = 5
    MaxEvictions = 0
PROPERTY ParentReleased
CHECK_DEADLOCK FALSE
