\* Three changes or failures around one position, with and without a take-profit.
SPECIFICATION FairSpec
CONSTANTS
    NoRow = NoRow
    MaxOrders = 5
    MaxSize = 2
    MaxStop = 2
    Plans = {TRUE, FALSE}
    MaxEvents = 3
    Faults = {"resize", "flat", "crash", "queryFail", "refused", "lostAnswer", "cancelFail", "persistFail", "lag"}
INVARIANTS
    SuccessIsReal
    NakedIsBlocked
PROPERTIES
    CoverKept
    ProtectionRecovers
