SPECIFICATION Spec
CONSTANTS
    parent = parent
    child = child
    first = first
    second = second
    Runs = {first, second}
    TopLevel = {}
    Cancels = {first, second}
    Queue <- QueueOrder
    Steps <- QueueSteps
    MaxSettledRuns = 5
    MaxEvictions = 0
INVARIANTS QueuedOwned OneTurn StopLeavesNothing
CHECK_DEADLOCK FALSE
