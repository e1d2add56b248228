SPECIFICATION FairSpec
CONSTANTS
    Kinds = {"tree", "http", "file"}
    DeleteAfterSync = TRUE
    Tries = 3
    MaxFaults = 5
INVARIANTS CopiesAccounted CachedIsIndexed BrokenHasCause
PROPERTY FinallyCached
