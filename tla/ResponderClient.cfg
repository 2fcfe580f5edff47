SPECIFICATION Spec
CONSTANTS
  UseTcg = TRUE
  UsePsk = TRUE
  RespVersions = {1}
  Faults = {"ENCRYPT", "DERIVE", "EXCHANGE"}
  ClientVersions = {1, 2}
  Psks = {1, 2}
  Auths = {1, 2}
  MaxFrames = 6
INVARIANTS RespTypeOK RespNonceFresh IdentityIsSigner PrivilegedNeedsFinish KeysFitState
PROPERTIES PskProtected
CHECK_DEADLOCK FALSE
