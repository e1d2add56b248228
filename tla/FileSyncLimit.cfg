SPECIFICATION Spec
CONSTANTS
    Kinds = {"http", "file"}
    DeleteAfterSync = TRUE
    Tries = 3
    MaxFaults = 1
INVARIANT LimitKept
