SPECIFICATION LimiterSpec
CONSTANTS
    k1 = k1
    k2 = k2
    k3 = k3
    w1 = w1
    w2 = w2
    Client = {k1, k2, k3}
    Worker = {w1, w2}
    Cost = 2
    Rate = 1
    Second = 2
    Burst = 4
    IdleEviction = 4
    MaxTracked = 1
    MaxLag = 1
    Long = 5
    NoRequest = NoRequest
SYMMETRY Symmetric
INVARIANTS
    BudgetIsHonoured
    RateIsExact
    WaitSuffices
