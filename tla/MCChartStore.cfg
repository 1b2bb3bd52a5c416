SPECIFICATION Spec
CONSTANTS
    a = a
    b = b
    o = o
    ka = ka
    kb = kb
    ko = ko
    Cycle = {1, 2, 3}
    Chart = {a, b, o}
    Key = {ka, kb, ko}
    KeyOf <- MCKeyOf
    Digest = {ka, kb}
    NoKey = NoKey
    Garbage = Garbage
    NoFile = NoFile
INVARIANTS
    CacheIsDisk
    PruneSparesActive
    PruneReclaims
PROPERTY
    ImplementsChartLibrary
