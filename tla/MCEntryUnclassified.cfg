\* A failure text the classifier does not know.
SPECIFICATION Spec
CONSTANTS
    Symbols = {eth}
    Orders = {o1, o2}
    NoOrder = NoOrder
    NoKey = NoKey
    MaxCandle = 1
    MaxCrashes = 0
    MaxOpen = 2
    Faults = {"unclassifiedError"}
    OperatorMaySwitch = FALSE
SYMMETRY OrderSymmetry
INVARIANT OneOrderPerKey
