SPECIFICATION Spec
CONSTANTS
    Paths <- SmallPaths
    Dirs <- SmallDirs
    Spell <- SpaceSpell
    Listed <- SmallPaths
    RunOnce = FALSE
    MaxFaults = 1
    MaxChanges = 1
PROPERTY SkipsOnlyBefore
