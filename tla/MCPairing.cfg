CONSTANTS
    Clients = {c1, c2}
    NoClient = NoClient
    MaxWindows = 2
SPECIFICATION Spec
INVARIANTS
    TypeOK
    KeyNeedsBothConsents
    OneKeyPerWindow
    NoKeyAfterRejection
    SuccessMeansInstalled
    PairedMeansInstalled
PROPERTIES
    ConfirmIsAnswered
    ImplementsContract
\* A helper that exited, and clients that are done, stay where they are.
CHECK_DEADLOCK FALSE
