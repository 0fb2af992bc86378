\* One thread, a restart and a month's end.
SPECIFICATION Spec
CONSTANTS
  Workers = {w1}
  Tenants = {t1}
  Builds = {b1, b2}
  Costs = {1, 2}
  LimitOfEach = 3
  Limit <- MCLimit
  MaxMonth = 1
  MaxRequests = 4
  MaxCrashes = 1
  Absent = Absent
  Empty = Empty
  Garbled = Garbled
INVARIANTS
  TypeOK
  WithinBudget
  GrantsKept
  ActualsKept
