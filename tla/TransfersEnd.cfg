SPECIFICATION Spec
CONSTANTS
    a = a
    b = b
    d = d
    c = c
    Top = Top
    Files = {a, c}
    Dirs = {d}
    Late = {}
    Tasks = {1, 2, 3}
    MaxRetry = 1
    MaxFaults = 0
CONSTANT
    Parent <- MCParent
PROPERTY MovesFinish
CHECK_DEADLOCK FALSE
