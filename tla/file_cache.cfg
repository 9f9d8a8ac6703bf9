\* Two threads of libfuse open, read and release two files while the Drive thread
\* renews its token; a call fails, and the process is killed once.
CONSTANTS
    Files = {f1, f2}
    Workers = {w1, w2}
    Handles = {h1, h2}
    Size = 1
    Drive = Drive
    None = None
    Absent = Absent
    Refusal = Refusal
    Closed = Closed
    MaxFailures = 1
    MaxCrashes = 1
SYMMETRY Symmetry
SPECIFICATION Spec
INVARIANTS TypeOK CacheWhole LoneReadsRight
PROPERTIES StoreSpec
