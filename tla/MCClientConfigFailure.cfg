CONSTANTS
    Runs = {r1, r2}
    MaxLines = 3
    Absent = Absent
SYMMETRY ConfigSymmetry
SPECIFICATION Spec
PROPERTY FailureLeavesPin
\* All runs may have ended.
CHECK_DEADLOCK FALSE
