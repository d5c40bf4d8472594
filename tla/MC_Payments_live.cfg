SPECIFICATION FairMCSpec
CONSTANTS
    u1 = u1  None = None  c2 = c2  w2 = w2  r2 = r2
    p1 = p1  d1 = d1
    Kinds = {"Withdrawal", "Single"}
    DepositOrders = {d1}
    DepositReconcilers = {p1, p2}
    DepositAmount <- TwoDeposits
    Limit = 3
    Reports = {"sending", "finished"}
    Outcomes = {1}
    Orders = {o1}
    Users = {u1}
    Keys = {k1}
    Clients = {c1}
    Workers = {w1}
    Reconcilers = {r1}
    Owner <- OneOwner
    Amount <- TwoAmounts
    Opening <- OpeningFive
    MaxAttempts = 2
    SingleLimit = 3
    DailyLimit = 3
PROPERTIES
    NoOrderForgotten DecidedPayoutSettles ImplementsContract NotifiedDepositIsCredited
CHECK_DEADLOCK FALSE
