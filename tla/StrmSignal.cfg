SPECIFICATION Spec
CONSTANTS
    Lines <- MCLines
    Text <- MCText
    Folders <- MCFolders
    NEntries = 2
    RunOnce = FALSE
    MaxFaults = 1
INVARIANT OnlyTriedLeave
