\* Two positions, two close orders, a crash; lists and submits may fail.
SPECIFICATION Spec
CONSTANTS
    Orders = {o1, o2}
    NoOrder = NoOrder
    NoRow = NoRow
    NoSnapshot = NoSnapshot
    MaxPositions = 2
    MaxCrashes = 1
    Faults = {"fetchFail", "partialFill", "lostAnswer", "promptConfirm", "strayPosition"}
SYMMETRY OrderSymmetry
INVARIANTS
    RecordedOnce
    OneRecordPerPosition
    PendingHasFill
PROPERTIES
    LeftAreFlat
    ImplementsTradeRecord
