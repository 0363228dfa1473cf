CONSTANTS
    home1 = home1
    project1 = project1
    project2 = project2
    Project = Project
    Home = Home
    None = None
    Starts <- MCStarts
    Path <- MCPath
    Limit = 2
SPECIFICATION Spec
INVARIANTS
    TypeOK
    ConnectedIsReady
    ShownProjectExists
PROPERTY StartIsDecided
\* Every call may have ended.
CHECK_DEADLOCK FALSE
