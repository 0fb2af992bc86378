\* The same apply is sent twice.
SPECIFICATION Spec
CONSTANTS
  Workers = {w1}
  Tenants = {t1}
  Builds = {b1}
  Costs = {2}
  LimitOfEach = 3
  Limit <- MCLimit
  MaxMonth = 0
  MaxRequests = 3
  MaxCrashes = 0
  Absent = Absent
  Empty = Empty
  Garbled = Garbled
PROPERTIES
  ReapplyAccepted
