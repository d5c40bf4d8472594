SPECIFICATION Spec
CONSTANTS
    c1 = c1  c2 = c2  c3 = c3  p1 = p1  p2 = p2  None = None
    Players = {p1, p2}
    Commands = {c1, c2}
    Forfeits = {c2}
    Placements = {}
    Sent <- SentOnce
    Sockets = {}
    Handlers = {h1, h2}
    Publishers = {}
    BatchLimit = 1
    ClockSkew = 0
    MaxRevision = 4
INVARIANTS
    RepeatReturnsReceipt
CHECK_DEADLOCK FALSE
