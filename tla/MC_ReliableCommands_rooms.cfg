SPECIFICATION Spec
CONSTANTS
    c1 = c1  c2 = c2  c3 = c3  p1 = p1  p2 = p2  None = None
    Players = {p1}
    Commands = {}
    Forfeits = {}
    Placements = {}
    Sent <- SentOnce
    Sockets = {s1}
    Handlers = {h1, h2}
    Publishers = {q1, q2}
    BatchLimit = 2
    ClockSkew = 0
    MaxRevision = 1
SYMMETRY Symmetry
INVARIANTS
    MarkedIsDelivered DeliveredInOrder DisconnectNotLost
CHECK_DEADLOCK FALSE
