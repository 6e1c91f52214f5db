\* The execution-key protocol under every fault of an honest transport and a crash.
SPECIFICATION Spec
CONSTANTS
    Symbols = {eth}
    Orders = {o1, o2}
    NoOrder = NoOrder
    NoKey = NoKey
    MaxCandle = 1
    MaxCrashes = 1
    MaxOpen = 2
    Faults = {"ambiguousError", "readFail", "cancelFail", "asyncCancel", "partialFill", "diskFail"}
    OperatorMaySwitch = FALSE
SYMMETRY OrderSymmetry
INVARIANTS
    OneOrderPerKey
    KeyProtocol
    LedgerRowsAreFills
PROPERTY ImplementsEntryOnce
