CONSTANTS
    Clients = {c1}
    NoClient = NoClient
    MaxWindows = 1
SPECIFICATION Spec
INVARIANT ExpiredMeansNoKey
\* A helper that exited, and clients that are done, stay where they are.
CHECK_DEADLOCK FALSE
