SPECIFICATION FairSpec
CONSTANTS
    RemoteFiles = {a, b}
    LocalFiles = {c}
    CheckoutCuts = FALSE
    MaxCrashes = 2
    MaxFaults = 2
INVARIANTS RemoteFilesKept ServesWholeTree NoScratchInRepository
PROPERTIES DiscardsOnlyNamed EventuallyServes
