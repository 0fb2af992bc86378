\* One build after another.
SPECIFICATION Spec
CONSTANTS
  Workers = {w1}
  Jobs = {j1}
  Specs = {s1, s2}
  Files = 2
  MaxBuilds = 3
  MaxCrashes = 0
  None = None
  Torn = Torn
INVARIANTS
  SkipMeansUnchanged
CHECK_DEADLOCK FALSE
