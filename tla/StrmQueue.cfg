SPECIFICATION FairSpec
CONSTANTS
    Lines <- MCLines
    Text <- MCText
    Folders <- MCFolders
    NEntries = 2
    RunOnce = FALSE
    MaxFaults = 2
INVARIANTS NoTaskLost RepeatsArePaid FolderWalkedWhole
PROPERTY RowsDrain
