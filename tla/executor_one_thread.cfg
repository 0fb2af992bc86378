\* One thread, restarts of the server, every backend.
SPECIFICATION Spec
CONSTANTS
  Workers = {w1}
  Backends = {"local", "docker", "stub"}
  MaxRequests = 5
  MaxCrashes = 1
  MaxFaults = 1
  Absent = Absent
  Empty = Empty
  Garbled = Garbled
  Unborn = Unborn
  Lost = Lost
INVARIANTS
  TypeOK
  ReadableAtRest
  EndIsBooked
  ContainersTracked
PROPERTIES
  ImplementsLifecycle
