\* Partial reduces: every fault, three reduce orders of a position of three.
SPECIFICATION FairSpec
CONSTANTS
    None = None
    MaxContracts = 3
    MaxOrders = 3
    MaxCandle = 2
    MaxEvents = 1
    Faults = {"lostAnswer", "orderEnds", "queryFail", "operator", "closeOnly", "crash"}
INVARIANTS
    BooksAreReal
    OneReduceInFlight
    LimitHolds
    NoFalseAugment
PROPERTIES
    LedgerConverges
    FilledReducesBooked
