SPECIFICATION FairSpec
CONSTANTS
    raid = raid
    sub = sub
    left = left
    right = right
    Alerts = {raid, sub}
    Earlier = {}
    Pages = {left}
    Faults = {"drop", "frame", "write"}
    MaxFaults = 1
    MaxLine = 1
INVARIANTS PlaysOnce
PROPERTIES Delivered
CHECK_DEADLOCK FALSE
