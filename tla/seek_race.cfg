\* Two reads on one descriptor.
CONSTANTS
    Files = {f1}
    Workers = {w1, w2}
    Handles = {h1}
    Size = 1
    Drive = Drive
    None = None
    Absent = Absent
    Refusal = Refusal
    Closed = Closed
    MaxFailures = 0
    MaxCrashes = 0
SPECIFICATION Spec
INVARIANTS SeekHolds
