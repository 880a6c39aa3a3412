SPECIFICATION Spec
CONSTANTS
    parent = parent
    child = child
    first = first
    second = second
    Runs = {parent, child}
    TopLevel = {parent}
    Cancels = {parent, child}
    Queue <- NoQueue
    Steps <- DetachedSteps
    MaxSettledRuns = 5
    MaxEvictions = 2
INVARIANT StopLeavesNothing
CHECK_DEADLOCK FALSE
