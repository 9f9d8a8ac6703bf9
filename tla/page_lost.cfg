\* One listing has a second page; the program is restarted again and again.
CONSTANTS
    root = root
    d = d
    e = e
    f = f
    na = na
    nb = nb
    Empty = Empty
    Null = Null
    RootName = RootName
    Tokens = {t1}
    Root = root
    Uuids <- MCUuids
    Names <- MCNames
    RemoteTrees <- NestedOnly
    Paths = {}
    EditKinds = {}
    MaxRows = 0
    MaxEdits = 0
    MaxFailures = 1
    MaxCrashes = 0
SPECIFICATION RestartSpec
PROPERTIES NextRunResumes
