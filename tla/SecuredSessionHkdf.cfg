SPECIFICATION Spec
CONSTANTS
  Tcg = FALSE
  SeqMax = 1
  Tags = {0}
  PeerAnswers = {"ACK", "ERROR", "BAD"}
  HkdfFaults = {"UPDATE_KEY"}
  MaxSessions = 2
  MaxCalls = 4
INVARIANTS NonceFresh
CHECK_DEADLOCK FALSE
