CONSTANTS
    home1 = home1
    project1 = project1
    project2 = project2
    Project = Project
    Home = Home
    None = None
    Starts <- MCStarts
    Path <- MCPath
    Limit = 2
SPECIFICATION Spec
INVARIANT CloseEndsSessions
\* Every call may have ended.
CHECK_DEADLOCK FALSE
