SPECIFICATION Spec
CONSTANTS
  UseTcg = TRUE
  UsePsk = TRUE
  RespVersions = {1}
  Faults = {}
  Modes = {"PSK"}
  HostKeys = {FALSE}
  MaxAttempts = 2
  MaxCommands = 1
  MaxLost = 0
  MaxLate = 0
INVARIANTS PskStays
CHECK_DEADLOCK FALSE
