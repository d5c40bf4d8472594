SPECIFICATION MCSpec
CONSTANTS
    u1 = u1  None = None  c2 = c2  w2 = w2  r2 = r2
    p1 = p1  d1 = d1
    Kinds = {"Withdrawal", "Single", "Pair"}
    DepositOrders = {d1, d2}
    DepositReconcilers = {p1, p2}
    DepositAmount <- TwoDeposits
    Limit = 3
    Reports = {"confirmed", "sending", "finished", "expired"}
    Outcomes = {0, 1}
    Orders = {o1, o2}
    Users = {u1}
    Keys = {k1, k2}
    Clients = {c1, c2}
    Workers = {w1, w2}
    Reconcilers = {r1, r2}
    Owner <- OneOwner
    Amount <- TwoAmounts
    Opening <- OpeningFive
    MaxAttempts = 2
    SingleLimit = 3
    DailyLimit = 3
SYMMETRY Symmetry
INVARIANTS
    TypeOK PayoutCreatedOnce ReturnedIsNotPaid PaidIsDelivered
    ChangedFeeIsNeverSent ReleasedOnce BooksMatchOrders UnreviewedWithinLimits
    DepositsBalance DepositsFitLimit
PROPERTIES
    ClosedStaysClosed
CHECK_DEADLOCK FALSE
