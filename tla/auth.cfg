\* Lifetimes of 1, whose margin leaves nothing, and 2, about the time INT_MAX is reached.
CONSTANTS
    ValueLen = 2
    MaxBlank = 1
    Lifetimes = {1, 2}
    IntLeft = 3
SPECIFICATION FairSpec
INVARIANTS TypeOK WholeOrNothing BeliefSound
PROPERTIES RefreshKept TokenRenewed
