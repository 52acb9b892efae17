SPECIFICATION Spec
CONSTANTS
  Files = {a, b}
  InitFiles = {a}
  Stamps = {1}
  Coalesce = TRUE
  HasRemote = TRUE
  PushMaxAttempts = 2
  ResendFailed = FALSE
  Cuttable = {"write", "pullflush"}
  Budget <- ConflictBudget
  Resolver = "vault"
INVARIANT TypeOK
INVARIANT NoMarkersOutsideQuarantine
PROPERTY ConflictSidesKept
PROPERTY MergeKeepsFiles
INVARIANT RescueDiscardsNothing
INVARIANT RescueOnce
