\* Any two of all changes and faults, the operator's orders among them.
SPECIFICATION Spec
CONSTANTS
    NoRow = NoRow
    MaxOrders = 5
    MaxSize = 2
    MaxStop = 2
    Plans = {TRUE, FALSE}
    MaxEvents = 2
    Faults = {"resize", "trail", "addon", "flat", "crash", "operatorPlaces", "operatorCancels",
              "queryFail", "refused", "lostAnswer", "cancelFail", "persistFail", "lag",
              "deadLookup", "staleScan", "slowReconcile"}
INVARIANT SwapIsDurable
PROPERTY OperatorOrdersKept
