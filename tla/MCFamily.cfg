SPECIFICATION FairSpec
CONSTANTS
    parent = parent
    child = child
    first = first
    second = second
    Runs = {parent, child}
    TopLevel = {parent}
    Cancels = {parent, child}
    Queue <- NoQueue
    Steps <- FamilySteps
    MaxSettledRuns = 5
    MaxEvictions = 2
INVARIANTS TypeOK SoleOwner OutcomeStands CancelledIffAccepted ResumeReadsOutcome EvictedUnused
PROPERTIES KeepsPromise AbandonedSettles CancelReachesChild
CHECK_DEADLOCK FALSE
