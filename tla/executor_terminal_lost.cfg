\* A second thread takes a terminal state back.
SPECIFICATION Spec
CONSTANTS
  Workers = {w1, w2}
  Backends = {"local"}
  MaxRequests = 4
  MaxCrashes = 0
  MaxFaults = 0
  Absent = Absent
  Empty = Empty
  Garbled = Garbled
  Unborn = Unborn
  Lost = Lost
PROPERTIES
  TerminalIsFinal
