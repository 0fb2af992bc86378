\* Two threads on the record of one job.
SPECIFICATION Spec
CONSTANTS
  Workers = {w1, w2}
  Backends = {"docker"}
  MaxRequests = 3
  MaxCrashes = 1
  MaxFaults = 1
  Absent = Absent
  Empty = Empty
  Garbled = Garbled
  Unborn = Unborn
  Lost = Lost
SYMMETRY Symmetry
INVARIANTS
  HistoryLegal
  TerminalAbsorbing
  OutcomeWasRun
