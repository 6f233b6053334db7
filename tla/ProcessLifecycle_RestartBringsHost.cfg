CONSTANTS
  Pids = {"p", "q", "r"}
  MaxDisturbances = 2
SPECIFICATION Spec
PROPERTY RestartBringsHost
CHECK_DEADLOCK FALSE
