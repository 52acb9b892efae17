SPECIFICATION Spec
CONSTANTS
  Files = {a}
  InitFiles = {a}
  Stamps = {1}
  Coalesce = TRUE
  HasRemote = TRUE
  PushMaxAttempts = 2
  ResendFailed = TRUE
  Cuttable = {"write"}
  Budget <- OneCut
  Resolver = "yaml"
INVARIANT AckedDurable
