SPECIFICATION Spec
CONSTANTS
  t1 = t1  t2 = t2  w1 = w1  w2 = w2  k1 = k1  None = None
  Tuis = {t1}
  Webs = {w1}
  Clis = {k1}
  TTL = 2
  Timeout = 1
  AutoAccept = FALSE
  WebGap = 2
  Requesters = {k1}
  MaxRequests = 1
  MaxSeizures = 0
  MaxReloads = 0
  MaxDelays = 0
  MaxFaults = 1
INVARIANTS
  ViewersOrdered
PROPERTIES
  KeepsLease
  LeaseAdopted
CHECK_DEADLOCK FALSE
