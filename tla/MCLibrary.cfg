SPECIFICATION Spec
CONSTANTS
  w1 = w1  w2 = w2  p1 = p1  p2 = p2  j1 = j1  j2 = j2  c1 = c1  c2 = c2
  Guest = guest
  Account = account
  Works = {w1, w2}
  Photos = {p1, p2}
  Jobs = {j1, j2}
  MaxJobs = 5
  Nil = Nil
  Talkers = {c1, c2}
  Window = 4
  Kept = 2
  PageSize = 2
  MaxClock = 4
CONSTRAINT OneConcern
SYMMETRY Symmetric
CHECK_DEADLOCK FALSE
INVARIANTS
  NoBrokenScreen
  LinksLead
  OnePhotoOneCopy
  
  ScrolledBack
