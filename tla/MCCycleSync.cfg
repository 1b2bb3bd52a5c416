SPECIFICATION FairSpec
CONSTANTS
    b1 = b1
    b2 = b2
    b2r = b2r
    Bundle = {b1, b2, b2r}
    CycleOf <- MCCycleOf
    SizeOf <- MCSizeOf
    NoFile = NoFile
    RangeModes = {TRUE, FALSE}
    MaxFaults = 3
INVARIANTS
    BusyMeansActive
PROPERTIES
    WholeBundles
    DeliveredOrTrapped
