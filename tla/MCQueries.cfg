SPECIFICATION Spec
CONSTANTS
    None = None
    Down = Down
    SearchCap = 2
    IdentCap = 4
    PerTable = 1
    Caps = {1, 2}
    Base <- MCBase
    Rows <- MCRows
    Largest <- MCLargest
    Boxes <- MCBoxes
    Typed <- MCTyped
INVARIANTS
    MapsShowTheView
    PagesAreComplete
    SearchLeadsOn
CHECK_DEADLOCK FALSE
