SPECIFICATION Spec
CONSTANTS
    c1 = c1  c2 = c2  c3 = c3  p1 = p1  p2 = p2  None = None
    Players = {p1}
    Commands = {c1, c2, c3}
    Forfeits = {c2}
    Placements = {c3}
    Sent <- SentTwice
    Sockets = {}
    Handlers = {h1, h2}
    Publishers = {}
    BatchLimit = 1
    ClockSkew = 0
    MaxRevision = 4
SYMMETRY Symmetry
VIEW CommandView
INVARIANTS
    AppliedIffAccepted OneMutationPerRevision AnswersMatchReceipts
    CancelledIsNotPlayed
PROPERTIES
    ImplementsContract
ACTION_CONSTRAINT FleetsFirst
CHECK_DEADLOCK FALSE
