\* Liveness: two threads, one file and one descriptor; every call may fail once.
CONSTANTS
    Files = {f1}
    Workers = {w1, w2}
    Handles = {h1}
    Size = 1
    Drive = Drive
    None = None
    Absent = Absent
    Refusal = Refusal
    Closed = Closed
    MaxFailures = 1
    MaxCrashes = 1
SPECIFICATION FairSpec
PROPERTIES MutexReleased
