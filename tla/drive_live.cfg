\* The thread alone with a Drive that is edited twice under its scans, stopped, restarted,
\* killed once, and failed once by the network.
CONSTANTS
    root = root
    d = d
    e = e
    f = f
    na = na
    nb = nb
    Empty = Empty
    Null = Null
    RootName = RootName
    Tokens = {t1}
    Root = root
    Uuids <- MCUuids
    Names <- MCNames
    RemoteTrees <- NestedOnly
    Paths = {}
    EditKinds = {"move", "remove"}
    MaxRows = 0
    MaxEdits = 2
    MaxFailures = 1
    MaxCrashes = 1
SPECIFICATION FairSpec
INVARIANTS PlacementOnceTrue
PROPERTIES MirrorSpec StopExits ScanEnds TokenStored
