CONSTANTS
  ta = ta
  tb = tb
  tc = tc
  Tasks = {ta}
  Deps <- Independent
  Delivered = {}
  MaxAttempts = 1
  AutoRetryMax = 2
  TestingEnabled = FALSE
  ReviewEnabled = FALSE
  ReviewsCapped = FALSE
  MaxReviewCycles = 0
  MaxSpawns = 3
  MaxClaims = 3
  MaxParallel = 2
  MaxDispatch = 3
  StaleAction = "block"
  InnerAttempts = 2
  StallLimit = 1
  Outcomes = {"changes", "fail"}
  Edits = {"none", "ahead"}
  PhaseOutcomes = {"ok"}
  MergeOutcomes = {"ok", "conflict"}
  GitTrouble = TRUE
  StorageTrouble = FALSE
  Aging = TRUE
  MaxDeaths = 1
  MaxRestarts = 0
SPECIFICATION Spec
INVARIANTS MergedIsIntegrated RetriesBounded WorktreeExclusive
CHECK_DEADLOCK FALSE
