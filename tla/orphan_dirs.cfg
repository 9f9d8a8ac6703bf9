\* Directories made by FUSE at the top level and below it; nothing fails.
CONSTANTS
    root = root
    d = d
    e = e
    f = f
    na = na
    nb = nb
    Empty = Empty
    Null = Null
    RootName = RootName
    Tokens = {t1}
    Root = root
    Uuids <- MCUuids
    Names <- MCNames
    RemoteTrees <- NestedOnly
    Paths <- MCPaths
    EditKinds = {}
    MaxRows = 3
    MaxEdits = 0
    MaxFailures = 0
    MaxCrashes = 0
SPECIFICATION Spec
INVARIANTS ForeignKey
