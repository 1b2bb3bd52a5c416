SPECIFICATION Spec
CONSTANTS
    p1 = p1
    p2 = p2
    r1 = r1
    r2 = r2
    n1 = n1
    n2 = n2
    Person = {p1, p2}
    Request = {r1, r2}
    Registration = {n1, n2}
    Phase = {"climb"}
    MaxAircraft = 1
    Limits <- MCLimits
    Nobody = Nobody
SYMMETRY Symmetric
INVARIANTS
    DeletedWithAccount
    NothingCrossesAccounts
    OneSessionPerTrip
    OvershootIsBounded
