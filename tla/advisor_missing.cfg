\* Two advisors, one of which names a dependency that is not active.
SPECIFICATION Spec
CONSTANTS
  Advisors = 2
INVARIANTS
  MissingIsNoCircle
CHECK_DEADLOCK FALSE
