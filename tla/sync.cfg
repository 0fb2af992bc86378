\* Two requests, and two things the world does meanwhile.
SPECIFICATION Spec
CONSTANTS
  Repos = {r1, r2}
  Paths = {p1}
  c1 = c1
  c2 = c2
  Contents = {c1, c2}
  Hidden = {p1}
  Shown <- AsTheyAre
  Workers = {w1, w2}
  None = None
  MaxHistory = 3
  MaxRequests = 2
  MaxEvents = 2
SYMMETRY Symmetry
INVARIANTS
  TypeOK
  FreshPlanTrue
  FetchedFromUpstream
  UnignoredNeverApplied
  BaselineInHead
CHECK_DEADLOCK FALSE
