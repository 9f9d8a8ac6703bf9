\* A file is removed while its folder is being scanned; nothing fails.
CONSTANTS
    root = root
    d = d
    e = e
    f = f
    na = na
    nb = nb
    Empty = Empty
    Null = Null
    RootName = RootName
    Tokens = {t1}
    Root = root
    Uuids <- MCUuids
    Names <- MCNames
    RemoteTrees <- NestedOnly
    Paths = {}
    EditKinds = {"remove"}
    MaxRows = 0
    MaxEdits = 1
    MaxFailures = 0
    MaxCrashes = 0
SPECIFICATION Spec
INVARIANTS RootKnown
