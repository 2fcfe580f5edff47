SPECIFICATION Spec
CONSTANTS
  UseTcg = TRUE
  UsePsk = TRUE
  RespVersions = {1}
  Faults = {}
  Modes = {"TCG", "PSK"}
  HostKeys = {TRUE}
  MaxAttempts = 3
  MaxCommands = 1
  MaxLost = 1
  MaxLate = 1
PROPERTIES Recovers
CHECK_DEADLOCK FALSE
