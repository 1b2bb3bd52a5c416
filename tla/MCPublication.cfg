SPECIFICATION Spec
CONSTANTS
    None = None
    Down = Down
    AirportDiagramIdent = APD
    PageSize = 1
    Feeds <- MCFeeds
    Cycles = {1, 2}
    RunwayOf <- MCRunwayOf
    Today = 1
    MaxRuns = 2
    KSFO = KSFO
    KOAK = KOAK
    LFPG = LFPG
    EDDF = EDDF
    SFO = SFO
    SSTIK = SSTIK
    RW28 = RW28
    OSI = OSI
    PORTE = PORTE
    KLIDE = KLIDE
    V25 = V25
CHECK_DEADLOCK FALSE
INVARIANTS
    BundleIsConsistent
    PublishedIsSound
    ExtrasNeverFailARun
PROPERTIES
    ServedNeverCollapses
    ManifestIsOfAWholeBundle
