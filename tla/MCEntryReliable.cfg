\* One symbol, both sides, two candles, three orders; queries and cancels may fail, the operator switches trading.
SPECIFICATION Spec
CONSTANTS
    Symbols = {eth}
    Orders = {o1, o2, o3}
    NoOrder = NoOrder
    NoKey = NoKey
    MaxCandle = 2
    MaxCrashes = 0
    MaxOpen = 1
    Faults = {"readFail", "cancelFail"}
    OperatorMaySwitch = TRUE
SYMMETRY OrderSymmetry
INVARIANTS
    OneEntryPerLeg
    PassiveFillsStayOwn
PROPERTY DropsAreSafe
