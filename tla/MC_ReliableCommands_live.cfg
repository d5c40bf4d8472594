SPECIFICATION FairSpec
CONSTANTS
    c1 = c1  c2 = c2  c3 = c3  p1 = p1  p2 = p2  None = None
    Players = {p1}
    Commands = {}
    Forfeits = {}
    Placements = {}
    Sent <- SentOnce
    Sockets = {s1}
    Handlers = {h1}
    Publishers = {q1}
    BatchLimit = 1
    ClockSkew = 0
    MaxRevision = 2
PROPERTIES
    EventsAreDelivered DisconnectsComplete PreparationEnds
CHECK_DEADLOCK FALSE
