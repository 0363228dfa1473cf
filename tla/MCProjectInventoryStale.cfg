CONSTANTS
    outer = outer
    inner = inner
    Paths <- MCPaths
    Inside <- MCInside
    Snapshots = {s1}
    Requests = {r1}
SPECIFICATION Spec
INVARIANT DeletedStaysDeleted
