SPECIFICATION FairSpec
CONSTANTS
  Files = {a}
  InitFiles = {a}
  Stamps = {1}
  Coalesce = TRUE
  HasRemote = TRUE
  PushMaxAttempts = 2
  ResendFailed = FALSE
  Cuttable = {"pullflush", "shutdown", "tick"}
  Budget <- DeliveryBudget
  Resolver = "marker"
INVARIANT DeletePushed
PROPERTY Delivered
