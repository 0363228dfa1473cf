CONSTANTS
    outer = outer
    inner = inner
    Paths <- MCPaths
    Inside <- MCInside
    Snapshots = {s1, s2}
    Requests = {r1, r2}
SPECIFICATION Spec
INVARIANTS
    TypeOK
    HiddenWhileDeleting
    ReservationIsExact
    OnlyListedPaths
PROPERTY GoneIsForgotten
