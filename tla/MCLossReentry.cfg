\* Two positions, a crash; balances fail, orders fill in parts, close_only_mode comes and goes.
SPECIFICATION ReentrySpec
CONSTANTS
    Orders = {o1}
    NoOrder = NoOrder
    NoRow = NoRow
    NoSnapshot = NoSnapshot
    NoTrade = NoTrade
    MaxPositions = 2
    MaxCrashes = 1
    Faults = {"balanceFail", "partialFill", "closeOnly"}
PROPERTIES
    EntriesSeeNewest
    NoChurn
