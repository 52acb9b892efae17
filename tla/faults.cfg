SPECIFICATION Spec
CONSTANTS
  Files = {a, b}
  InitFiles = {a}
  Stamps = {1}
  Coalesce = FALSE
  HasRemote = TRUE
  PushMaxAttempts = 2
  ResendFailed = FALSE
  Cuttable = {"delete", "pull"}
  Budget <- FaultBudget
  Resolver = "vault"
INVARIANT NoMarkersOutsideQuarantine
INVARIANT DeletePushed
INVARIANT PullConverges
PROPERTY HeadOnlyAdvances
