CONSTANTS
    Paths = {p1}
    Inside <- MCInside
    Snapshots = {s1}
    Requests = {r1}
    Ids = {t1}
    Home = Home
    MaxSessions = 1
SPECIFICATION DashSpec
PROPERTY TerminalsStartAtListedPaths
