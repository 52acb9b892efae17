SPECIFICATION FairSpec
CONSTANTS
    Paths = {a, b}
    Delay = 2
    MaxDelay = 4
    Tick = 2
    MaxHold = 3
    MaxFailures = 1
INVARIANTS AgeBound OneCommitPerWindow
PROPERTY Drained
