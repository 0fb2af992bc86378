\* Two threads on one ledger.
SPECIFICATION Spec
CONSTANTS
  Workers = {w1, w2}
  Tenants = {t1}
  Builds = {b1, b2}
  Costs = {1, 2}
  LimitOfEach = 3
  Limit <- MCLimit
  MaxMonth = 0
  MaxRequests = 4
  MaxCrashes = 1
  Absent = Absent
  Empty = Empty
  Garbled = Garbled
SYMMETRY Symmetry
INVARIANTS
  OneEntryPerId
  EstimatesWereGranted
