\* Fair ticks; balances and queries fail, and the exchange forgets old orders.
SPECIFICATION FairSpec
CONSTANTS
    Orders = {o1, o2}
    NoOrder = NoOrder
    NoRow = NoRow
    NoSnapshot = NoSnapshot
    MaxPositions = 2
    MaxCrashes = 0
    Faults = {"balanceFail", "queryFail", "orderForgotten"}
INVARIANTS
    TypeOK
    OneCloseInFlight
PROPERTIES
    PendingKeptUntilRecorded
    FlatRowsLeave
    PendingGetsRecorded
