SPECIFICATION Spec
CONSTANTS
    Commons <- MCCommons
    Sides <- MCSides
    Contents <- MCContents
    MaxChunks = 3
    MaxRegions = 2
INVARIANTS NothingLost NoDuplicateKey CountersOnlyGrow NoResurrection
PROPERTY TaskFilesStayTasks
CHECK_DEADLOCK FALSE
