\* A file is renamed between an interrupted scan and the next.
CONSTANTS
    root = root
    d = d
    e = e
    f = f
    na = na
    nb = nb
    Empty = Empty
    Null = Null
    RootName = RootName
    Tokens = {t1}
    Root = root
    Uuids <- MCUuids
    Names <- MCNames
    RemoteTrees <- NestedOnly
    Paths = {}
    EditKinds = {"rename"}
    MaxRows = 0
    MaxEdits = 1
    MaxFailures = 0
    MaxCrashes = 1
SPECIFICATION Spec
INVARIANTS NamesCurrent
