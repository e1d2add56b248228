SPECIFICATION Spec
CONSTANTS
    a = a
    b = b
    d = d
    c = c
    Top = Top
    Files = {a, b, c}
    Dirs = {d}
    Late = {b}
    Tasks = {1, 2, 3, 4}
    MaxRetry = 1
    MaxFaults = 1
CONSTANT
    Parent <- MCParent
INVARIANTS CountExact RemovedForCause
CHECK_DEADLOCK FALSE
