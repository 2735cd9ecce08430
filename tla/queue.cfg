SPECIFICATION Spec
CONSTANTS
  a = a  b = b  c = c  g = g
  ann = ann  bob = bob  owner = owner
  Once = {"fail", "revise", "edit", "age"}
  Twice = {"decide", "stop", "crash", "reset"}
  Tasks = {a, b, c, g}
  Gates = {g}
  Judged = {a}
  Last = 2
  PrdOf <- PrdMC
  Deps <- DepsMC
  Subject <- SubjectMC
  Actors = {ann, bob}
  Roles = {owner}
  Need <- NeedMC
  Rule <- RuleMC
  Total <- TotalMC
  Expiring = {g}
  LimitSet = TRUE
  Max <- MaxMC
  MaxEvents = 3
INVARIANTS
  TypeOK
  CursorBehind
  CursorJudged
  StopHonoured
PROPERTIES
  ApprovedByQuorum
  QueueOrder
  QueueEnds
CHECK_DEADLOCK FALSE
