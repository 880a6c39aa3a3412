SPECIFICATION FairSpec
CONSTANTS
    r1 = r1
    Runs = {r1}
    Ordered = {}
    Cancels = {r1}
    Reached = {"completed", "failed", "cancelled"}
    QueueSize = 2
    MaxRestarts = 1
INVARIANTS TypeOK AnswerTruthful SendsOnlyOpen Accounted RowArrivesFirst NeverHeld
PROPERTIES OutcomeFinal HistorySettles StopEnds
CHECK_DEADLOCK FALSE
