SPECIFICATION FairSpec
CONSTANTS
    Files = {f}
    Rest = {g}
    Calls = {c1, c2}
    Copies = {1, 2, 3, 4, 5, 6, 7}
    Tries = 2
    Autoremove = TRUE
    MaxFaults = 2
    MaxOthers = 1
INVARIANTS StraysPaid QuietLinksWork
PROPERTY CallsReturn
