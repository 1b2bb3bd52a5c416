SPECIFICATION FairSpec
CONSTANTS
    b1 = b1
    b2 = b2
    b2r = b2r
    b3 = b3
    Cycles = {1, 2, 3}
    Bundle = {b1, b2, b2r, b3}
    CycleOf <- AllPublished
    Corrupt = Corrupt
    NoFile = NoFile
    EmptyDir = EmptyDir
    MaxFaults = 2
INVARIANTS
    ActiveIsGenuine
    AppliedIsActive
    PruneReclaims
PROPERTIES
    ImplementsAtomicSwap
    RetrySucceeds
