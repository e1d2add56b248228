SPECIFICATION Spec
CONSTANTS
    a = a
    b = b
    Names = {a, b}
    Requests = {r1, r2}
    MaxGen = 3
CONSTANTS
    Paths <- MCPaths
    Bases <- MCBases
SYMMETRY MCSymmetry
INVARIANT LocksRespected
CHECK_DEADLOCK FALSE
