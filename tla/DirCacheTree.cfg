SPECIFICATION CacheSpec
CONSTANTS
    Paths <- MCPaths
    Dirs <- MCDirs
    Stored <- MCStored
    Calls = {c}
    Returned = {TRUE}
    MaxListings = 1
    MaxBegun = 1
PROPERTY TreeForgotten
