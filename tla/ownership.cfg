SPECIFICATION Spec
CONSTANTS
  t1 = t1  t2 = t2  w1 = w1  w2 = w2  k1 = k1  None = None
  Tuis = {t1,t2}
  Webs = {}
  Clis = {}
  TTL = 3
  Timeout = 1
  AutoAccept = TRUE
  WebGap = 3
  Requesters = {t1,t2}
  MaxRequests = 2
  MaxSeizures = 1
  MaxReloads = 0
  MaxDelays = 1
  MaxFaults = 1
SYMMETRY TuisAlike
INVARIANTS
  TypeOK
PROPERTIES
  KeepsLease
  
CHECK_DEADLOCK FALSE
