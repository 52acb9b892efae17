SPECIFICATION Spec
CONSTANTS
  Files = {a}
  InitFiles = {a}
  Stamps = {1}
  Coalesce = TRUE
  HasRemote = TRUE
  PushMaxAttempts = 2
  ResendFailed = FALSE
  Cuttable = {}
  Budget <- OneCrash
  Resolver = "yaml"
PROPERTY MergeKeepsFiles
