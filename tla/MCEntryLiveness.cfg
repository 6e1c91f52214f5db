\* Liveness: no symmetry, one order, a crash, failing queries and the failures the other runs leave out.
SPECIFICATION FairSpec
CONSTANTS
    Symbols = {eth}
    Orders = {o1}
    NoOrder = NoOrder
    NoKey = NoKey
    MaxCandle = 1
    MaxCrashes = 1
    MaxOpen = 2
    Faults = {"ambiguousError", "unclassifiedError", "readFail", "tornWrite"}
    OperatorMaySwitch = FALSE
PROPERTIES
    PositionsReachLedger
    AmbiguousResolves
    RowsSettle
