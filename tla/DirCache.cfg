SPECIFICATION CacheSpec
CONSTANTS
    Paths <- MCPaths
    Dirs <- MCDirs
    Stored <- MCStored
    Calls = {c1, c2}
    Returned = {FALSE}
    MaxListings = 1
    MaxBegun = 2
SYMMETRY MCSymmetry
INVARIANT CacheExact
PROPERTY NotFoundHasCause
