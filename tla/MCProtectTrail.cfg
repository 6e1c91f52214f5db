\* Nothing fails; the stop is raised once.
SPECIFICATION FairSpec
CONSTANTS
    NoRow = NoRow
    MaxOrders = 5
    MaxSize = 2
    MaxStop = 2
    Plans = {FALSE}
    MaxEvents = 1
    Faults = {"trail"}
PROPERTY ProtectionRecovers
