\* Pages of one fill, two at most; a fill may show up late; one fault.
SPECIFICATION FairSpec
CONSTANTS
    Syncs = {1, 2}
    Qtys <- SmallQtys
    PageSize = 1
    MaxPages = 2
    Overlap = 1
    Window = 2
    Lag = 1
    MaxFills = 3
    MaxTime = 4
    MaxFaults = 1
INVARIANTS
    TypeOK
    NoFillBehindCursor
    StoredTradesAreReal
PROPERTIES
    HistoryGrows
    FillsGetStored
    TradesGetStored
