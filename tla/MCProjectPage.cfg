CONSTANTS
    Paths = {p1}
    Inside <- MCInside
    Snapshots = {s1}
    Requests = {r1, r2}
    NoProject = NoProject
SPECIFICATION PageSpec
INVARIANT PageTypeOK
PROPERTIES
    BusyEnds
    GoneLeavesPage
