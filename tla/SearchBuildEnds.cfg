SPECIFICATION Spec
CONSTANTS
    Root = Root
    None = None
    d = d
    x = x
    all = all
    part = part
    Nodes = {d, x}
    Dirs = {Root, d}
    Builds = {all, part}
    Updates = {}
    Parent <- MCParent
    Paths <- PathBoth
    Whole = {all}
    Mounts = {}
    MaxUpsets = 2
PROPERTY BuildsEnd
CHECK_DEADLOCK FALSE
