\* Two threads record estimates at the same time.
SPECIFICATION Spec
CONSTANTS
  Workers = {w1, w2}
  Tenants = {t1}
  Builds = {b1, b2}
  Costs = {1}
  LimitOfEach = 5
  Limit <- MCLimit
  MaxMonth = 0
  MaxRequests = 2
  MaxCrashes = 0
  Absent = Absent
  Empty = Empty
  Garbled = Garbled
INVARIANTS
  GrantsKept
