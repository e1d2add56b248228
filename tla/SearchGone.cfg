SPECIFICATION Spec
CONSTANTS
    Root = Root
    None = None
    d = d
    x = x
    all = all
    part = part
    Nodes = {d, x}
    Dirs = {Root, d}
    Builds = {all, part}
    Updates = {u}
    Parent <- MCParent
    Paths <- PathFile
    Whole = {all}
    Mounts = {}
    MaxUpsets = 1
INVARIANT GoneIsDeleted
CHECK_DEADLOCK FALSE
