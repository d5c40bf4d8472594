SPECIFICATION FairSpec
CONSTANTS
    u1 = u1  None = None  c2 = c2  w2 = w2  r2 = r2
    Orders = {o1}
    Users = {u1}
    Keys = {k1}
    Clients = {c1}
    Workers = {w1}
    Reconcilers = {r1}
    Owner <- OneOwner
    Amount <- TwoAmounts
    Opening <- OpeningFive
    MaxAttempts = 2
    SingleLimit = 3
    DailyLimit = 3
PROPERTIES
    KnownPayoutIsVerified
CHECK_DEADLOCK FALSE
