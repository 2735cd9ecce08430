CONSTANTS
  ta = ta
  tb = tb
  tc = tc
  Tasks = {ta}
  Deps <- Independent
  Delivered = {}
  MaxAttempts = 1
  AutoRetryMax = 2
  TestingEnabled = FALSE
  ReviewEnabled = FALSE
  ReviewsCapped = FALSE
  MaxReviewCycles = 0
  MaxSpawns = 2
  MaxClaims = 2
  MaxParallel = 2
  MaxDispatch = 1
  StaleAction = "off"
  InnerAttempts = 1
  StallLimit = 1
  Outcomes = {"changes"}
  Edits = {"dirty"}
  PhaseOutcomes = {"ok"}
  MergeOutcomes = {"ok", "conflict"}
  GitTrouble = FALSE
  StorageTrouble = FALSE
  Aging = FALSE
  MaxDeaths = 0
  MaxRestarts = 1
SPECIFICATION Spec
INVARIANTS CommitsKept
CHECK_DEADLOCK FALSE
