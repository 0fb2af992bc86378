\* Two request threads, the periodic reconcile and a restart.
SPECIFICATION FairSpec
CONSTANTS
  Runs = {r1}
  Workers = {w1, w2}
  Loop = loop
  MaxCopies = 2
  MaxRequests = 3
  MaxCrashes = 1
  Torn = Torn
INVARIANTS
  TypeOK
  DiskMatchesMemory
PROPERTIES
  RunsSettle
