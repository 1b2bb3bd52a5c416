SPECIFICATION Spec
CONSTANTS
    c1 = c1
    c2 = c2
    w1 = w1
    w2 = w2
    Chart = {c1}
    Worker = {w1, w2}
    Size = 3
    RangeModes = {TRUE}
    NoChart = NoChart
    NoInode = NoInode
    NoWorker = NoWorker
SYMMETRY Coroutines
INVARIANTS
    InstalledIsWhole
    ProgressHasWorker
