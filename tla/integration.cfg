SPECIFICATION Spec
CONSTANTS
  b1 = b1  b2 = b2  w1 = w1  w2 = w2  s1 = s1  r1 = r1  e1 = e1  None = None
  Branches = {b1,b2}
  Workers = {w1,w2}
  Syncs = {s1}
  Repairers = {r1}
  Edits = {e1}
  MaxMishaps = 1
INVARIANTS
  TypeOK
  
  OwnWorkOnly
  FilesFollow
PROPERTIES
  NothingLost
  LockComesFree
