CONSTANTS
  ta = ta
  tb = tb
  tc = tc
  Tasks = {ta, tb, tc}
  Deps <- Forked
  Delivered = {}
  MaxAttempts = 1
  AutoRetryMax = 2
  TestingEnabled = FALSE
  ReviewEnabled = FALSE
  ReviewsCapped = FALSE
  MaxReviewCycles = 0
  MaxSpawns = 3
  MaxClaims = 3
  MaxParallel = 2
  MaxDispatch = 3
  StaleAction = "off"
  InnerAttempts = 1
  StallLimit = 1
  Outcomes = {"changes", "fail"}
  Edits = {"dirty"}
  PhaseOutcomes = {"ok"}
  MergeOutcomes = {"ok", "conflict", "transient"}
  GitTrouble = FALSE
  StorageTrouble = FALSE
  Aging = FALSE
  MaxDeaths = 0
  MaxRestarts = 0
SPECIFICATION Spec
INVARIANTS CommitsKept OneMerge DepBlockedHasReason MergesAnswered
PROPERTIES KeepsPromise
CHECK_DEADLOCK FALSE
