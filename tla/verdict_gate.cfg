SPECIFICATION Spec
CONSTANTS
  a = a  b = b  c = c  g = g
  ann = ann  bob = bob  owner = owner
  Once = {}
  Twice = {}
  Tasks = {a, b}
  Gates = {}
  Judged = {a}
  Last = 1
  PrdOf <- PrdMC
  Deps <- DepsMC
  Subject <- SubjectMC
  Actors = {ann}
  Roles = {owner}
  Need <- NeedMC
  Rule <- RuleMC
  Total <- TotalMC
  Expiring = {}
  LimitSet = FALSE
  Max <- MaxMC
  MaxEvents = 0
PROPERTIES
  VerdictRespected
CHECK_DEADLOCK FALSE
