SPECIFICATION Spec
CONSTANTS
    s1 = s1
    s2 = s2
    c1 = c1
    Sessions = {s1, s2}
    Clients = {c1}
    ClientOf <- OneClient
    Requests = {q1, q2}
    NoRequest = NoRequest
    NoSession = NoSession
    BufferLimit = 2
    MaxSubs = 3
    MaxEvents = 2
SYMMETRY StreamSymmetry
INVARIANT PendingHeld
PROPERTY PushesInOrder
CHECK_DEADLOCK FALSE
