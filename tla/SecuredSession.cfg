SPECIFICATION Spec
CONSTANTS
  Tcg = FALSE
  SeqMax = 1
  Tags = {0}
  PeerAnswers = {"ACK", "ERROR", "BAD"}
  HkdfFaults = {"FINISH", "UPDATE_ALL"}
  MaxSessions = 2
  MaxCalls = 4
INVARIANTS TypeOK NonceFresh NoReplay WireIsCounter KeysCoherent NeverAhead UpdateAgrees
CHECK_DEADLOCK FALSE
