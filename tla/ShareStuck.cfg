SPECIFICATION AskingSpec
CONSTANTS
    Files = {f}
    Rest = {}
    Calls = {c}
    Copies = {1, 2, 3, 4}
    Tries = 3
    Autoremove = FALSE
    MaxFaults = 3
    MaxOthers = 0
PROPERTY LinkRecovers
