\* Two threads in every service; the bounds of each part are its own.
SPECIFICATION Spec
CONSTANTS
  Workers = {w1, w2}
  None = None
  Torn = Torn
  HighRisk = 65
  TTL = 0
  GateTime = 1
  GateRuns = 1
  GateFaults = 1
  Jobs = {j1, j2}
  Specs = {s1, s2}
  Files = 2
  MaxBuilds = 3
  Names = {n1, n2}
  Urls = {u1, u2}
  Broken = Broken
  UrlCommits = 2
  FederationRequests = 2
  Advisors = 3
  Keys = {k1}
  Rpm = 2
  Window = 2
  PathTime = 4
  PathRequests = 4
  Limit = 4
  Ceiling = 2
  Costs = {2}
  MaxCost = 2
  AIRequests = 3
  ModelRequests = 3
  MaxFaults = 1
  MaxCrashes = 1
SYMMETRY Symmetry
INVARIANTS
  TypeOK
  ChainsClosed
  TornAreBeingFilled
  HighRiskApproved
  RegisteredPlansSaved
  RegistrationsKept
  RegistryDescribesTree
  HeadIsMaterialized
  DependenciesFirst
  FailsOnlyIfCircular
  BelowTwiceTheLimit
  OwnIdWhenAlone
  OverspendBounded
  CallsBilled
  TriagesRemembered
  AnsweredModelsKept
CHECK_DEADLOCK FALSE
