SPECIFICATION Spec
CONSTANTS
    Root = Root
    None = None
    d = d
    x = x
    all = all
    part = part
    Nodes = {d, x}
    Dirs = {Root, d}
    Builds = {all, part}
    Updates = {u}
    Parent <- MCParent
    Paths <- PathBoth
    Whole = {all}
    Mounts = {}
    MaxUpsets = 1
INVARIANTS NothingDropped DoublesHaveCause
CHECK_DEADLOCK FALSE
