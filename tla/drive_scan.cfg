\* The core run: every edit of the Drive, a crash, a failed request,
\* and a table FUSE may add directories to.
CONSTANTS
    root = root
    d = d
    e = e
    f = f
    na = na
    nb = nb
    Empty = Empty
    Null = Null
    RootName = RootName
    Tokens = {t1}
    Root = root
    Uuids <- MCUuids
    Names <- MCNames
    RemoteTrees <- WithNativeOnly
    Paths <- MCPaths
    EditKinds = {"move", "remove", "rename"}
    MaxRows = 3
    MaxEdits = 1
    MaxFailures = 1
    MaxCrashes = 1
SPECIFICATION Spec
INVARIANTS TypeOK TableInv PlacementOnceTrue TombstonesAreFolders FuseSeesDrive
PROPERTIES RowsKeepIdentity MirrorSpec
