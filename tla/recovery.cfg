CONSTANTS
  ta = ta
  tb = tb
  tc = tc
  Tasks = {ta}
  Deps <- Independent
  Delivered = {}
  MaxAttempts = 2
  AutoRetryMax = 2
  TestingEnabled = FALSE
  ReviewEnabled = FALSE
  ReviewsCapped = FALSE
  MaxReviewCycles = 0
  MaxSpawns = 4
  MaxClaims = 2
  MaxParallel = 2
  MaxDispatch = 1
  StaleAction = "off"
  InnerAttempts = 1
  StallLimit = 1
  Outcomes = {"changes", "fail"}
  Edits = {"dirty", "ahead"}
  PhaseOutcomes = {"ok"}
  MergeOutcomes = {"ok", "timeout"}
  GitTrouble = TRUE
  StorageTrouble = TRUE
  Aging = FALSE
  MaxDeaths = 0
  MaxRestarts = 1
SPECIFICATION Spec
INVARIANTS WorktreeExclusive WorkAssigned
PROPERTIES KeepsPromise
CHECK_DEADLOCK FALSE
