CONSTANTS
  ta = ta
  tb = tb
  tc = tc
  Tasks = {ta, tb, tc}
  Deps <- Forked
  Delivered = {}
  MaxAttempts = 1
  AutoRetryMax = 2
  TestingEnabled = FALSE
  ReviewEnabled = TRUE
  ReviewsCapped = TRUE
  MaxReviewCycles = 1
  MaxSpawns = 3
  MaxClaims = 3
  MaxParallel = 2
  MaxDispatch = 3
  StaleAction = "off"
  InnerAttempts = 1
  StallLimit = 1
  Outcomes = {"changes"}
  Edits = {"dirty", "ahead"}
  PhaseOutcomes = {"ok", "changes"}
  MergeOutcomes = {"ok"}
  GitTrouble = FALSE
  StorageTrouble = FALSE
  Aging = FALSE
  MaxDeaths = 0
  MaxRestarts = 0
SPECIFICATION FairSpec
PROPERTIES AllMerged
CHECK_DEADLOCK FALSE
