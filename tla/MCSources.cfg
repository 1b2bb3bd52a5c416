SPECIFICATION ReadingSpec
CONSTANTS
    None = None
    Down = Down
    AirportDiagramIdent = APD
    PageSize = 2
    MaxPages = 2
    PreviewWidth = 5
    SheetWidths = {4, 5, 7, 12}
    Run = 2
    MergePx = 1
    Records <- MCRecords
    Longest <- MCLongest
    Designators <- MCDesignators
    KSFO = KSFO
    KOAK = KOAK
    SSTIK = SSTIK
    RW28L = RW28L
    RW28R = RW28R
    PORTE = PORTE
    PLAIN = PLAIN
    EDDF = EDDF
CHECK_DEADLOCK FALSE
INVARIANTS
    CifpIsReadRight
    AixmIsReadRight
    FeedsAreReadRight
    CutKeepsTheChart
