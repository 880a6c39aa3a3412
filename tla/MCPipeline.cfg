SPECIFICATION FairSpec
CONSTANTS
    LastRow = 2
    BatchSize = 2
    MaxFaults = 1
    MaxBuffered = 2
    MaxPost = 1
INVARIANTS OncePerFault LaneKeeps ArrivesInOrder
PROPERTY EventsMove
CHECK_DEADLOCK FALSE
