SPECIFICATION Spec
CONSTANTS
    raid = raid
    sub = sub
    left = left
    right = right
    Alerts = {raid}
    Earlier = {raid}
    Pages = {left, right}
    Faults = {"restart", "drop", "reload", "list", "fetch", "write", "reply", "frame", "unacked"}
    MaxFaults = 1
    MaxLine = 1
SYMMETRY PageSymmetry
INVARIANTS TypeOK NothingLost EndsOnce SkipReaches
CHECK_DEADLOCK FALSE
