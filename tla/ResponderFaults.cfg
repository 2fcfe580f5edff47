SPECIFICATION Spec
CONSTANTS
  UseTcg = TRUE
  UsePsk = TRUE
  RespVersions = {1}
  Faults = {"ENCRYPT"}
  ClientVersions = {1, 2}
  Psks = {1, 2}
  Auths = {1, 2}
  MaxFrames = 6
INVARIANTS ConnectedHasAppKeys
CHECK_DEADLOCK FALSE
