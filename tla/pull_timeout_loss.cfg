SPECIFICATION Spec
CONSTANTS
  Files = {a, b}
  InitFiles = {a}
  Stamps = {1}
  Coalesce = TRUE
  HasRemote = TRUE
  PushMaxAttempts = 2
  ResendFailed = FALSE
  Cuttable = {"pull"}
  Budget <- OneCut
  Resolver = "yaml"
INVARIANT AckedDurable
