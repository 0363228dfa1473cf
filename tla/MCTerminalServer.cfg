CONSTANTS
    Ids = {t1, t2, t3}
    Paths = {}
    Home = Home
    MaxSessions = 2
SPECIFICATION Spec
INVARIANTS
    TypeOK
    RunningHoldsSlot
    SessionLimit
    OneAttachment
    NothingForgotten
    SlotsAreExact
PROPERTIES
    ShutdownEndsSessions
    OnlyBlockedInputKeepsSession
\* When every authorization was used and the dashboard stopped, nothing is left.
CHECK_DEADLOCK FALSE
