CONSTANTS
    Bits = 5
    SmallestPrefix = 2
    MaxCandidates = 4
    Macs <- MCMacs
    Devices = {7, 10}
    MaxWorkers = 2
SPECIFICATION Spec
INVARIANTS
    TypeOK
    EveryAddressIsSomewhere
    CompleteUnlessExpired
    ClosedIsQuiet
    ProbesAreLocal
PROPERTIES
    PoolProgresses
    SearchReturns
\* The search ends.
CHECK_DEADLOCK FALSE
