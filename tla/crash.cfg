SPECIFICATION Spec
CONSTANTS
  Files = {a, b}
  InitFiles = {a}
  Stamps = {1}
  Coalesce = TRUE
  HasRemote = TRUE
  PushMaxAttempts = 2
  ResendFailed = FALSE
  Cuttable = {"pullflush", "shutdown"}
  Budget <- CrashBudget
  Resolver = "vault"
INVARIANT AckedDurable
INVARIANT NoMergeLeftOpen
PROPERTY HeadOnlyAdvances
INVARIANT PullConverges
