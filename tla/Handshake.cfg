SPECIFICATION Spec
CONSTANTS
  UseTcg = TRUE
  UsePsk = TRUE
  RespVersions = {1}
  Faults = {"EXCHANGE"}
  Modes = {"TCG", "NUVOTON", "PSK"}
  HostKeys = {TRUE, FALSE}
  MaxAttempts = 2
  MaxCommands = 2
  MaxLost = 1
  MaxLate = 1
INVARIANTS HandshakeTypeOK CountersNeverCross InStep
PROPERTIES ImplementsSession
CHECK_DEADLOCK FALSE
