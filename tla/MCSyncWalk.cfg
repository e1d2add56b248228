SPECIFICATION FairSpec
CONSTANTS
    Paths <- MCPaths
    Dirs <- MCDirs
    Spell <- MCSpell
    Listed <- MCListed
    RunOnce = TRUE
    MaxFaults = 2
    MaxChanges = 2
INVARIANTS BreakpointNeverAhead SweepComplete
PROPERTIES RedoOnlyBreakpoint SweepPromise EveryFileAttempted
