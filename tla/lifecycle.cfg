CONSTANTS
  ta = ta
  tb = tb
  tc = tc
  Tasks = {ta}
  Deps <- Independent
  Delivered = {}
  MaxAttempts = 1
  AutoRetryMax = 2
  TestingEnabled = TRUE
  ReviewEnabled = TRUE
  ReviewsCapped = TRUE
  MaxReviewCycles = 1
  MaxSpawns = 2
  MaxClaims = 2
  MaxParallel = 1
  MaxDispatch = 2
  StaleAction = "off"
  InnerAttempts = 2
  StallLimit = 1
  Outcomes = {"changes", "nochanges", "errChanges", "errNone", "precond", "fail",
              "fatal", "rate", "quota", "silent"}
  Edits = {"none", "dirty", "ahead"}
  PhaseOutcomes = {"ok", "changes", "failed", "unavailable"}
  MergeOutcomes = {"ok", "conflict"}
  GitTrouble = FALSE
  StorageTrouble = FALSE
  Aging = FALSE
  MaxDeaths = 0
  MaxRestarts = 0
SPECIFICATION FairSpec
INVARIANTS TypeOK MergedIsIntegrated ReviewsBounded NoLostTask PerformersTracked
PROPERTIES KeepsPromise RunEnds
CHECK_DEADLOCK FALSE
