SPECIFICATION Spec
CONSTANTS
    RemoteFiles = {a, b}
    LocalFiles = {c}
    CheckoutCuts = TRUE
    MaxCrashes = 1
    MaxFaults = 0
INVARIANT RemoteFilesKept
