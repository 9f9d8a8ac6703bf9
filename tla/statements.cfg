\* Two threads of libfuse with a call each, on any of three paths, against two updates.
CONSTANTS
    root = root
    d = d
    e = e
    f = f
    na = na
    nb = nb
    Empty = Empty
    Null = Null
    RootName = RootName
    Tokens = {}
    Root = root
    Uuids <- MCUuids
    Names <- MCNames
    Workers = {w1, w2}
    DriveThread = drive
    Nobody = nobody
    Tables <- MCTables
    Files <- MCFiles
    Paths <- MCPaths
    MaxCalls = 1
    MaxUpdates = 2
SPECIFICATION Spec
INVARIANTS TypeOK LoneCallsLinear LoneTableSound
PROPERTIES RowsKeepIdentity
SYMMETRY MCSymmetry
