CONSTANTS
  Pids = {"p", "q", "r"}
  MaxDisturbances = 2
SPECIFICATION Spec
INVARIANTS
  EndpointNamesServer
  MarkerMeansExited
PROPERTIES
  ExitEndsUi
  Converges
CHECK_DEADLOCK FALSE
