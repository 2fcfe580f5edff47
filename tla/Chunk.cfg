SPECIFICATION Spec
CONSTANTS
  HdrSz = 1
  FirstHdrSz = 2
  MyTransfer = 3
  PeerTransfer = 3
  PeerMaxMsg = 6
  MaxMsg = 5
  SeqMax = 1
  WordMod = 8
  HandleMod = 2
  ReqSizes = {2, 4, 7}
  RspSizes = {1, 3, 6}
  Caps = {2, 6}
  MaxCalls = 2
INVARIANTS ChunkTypeOK ReturnsWhatArrived ResponseWhole RequestWhole FitsTheWire
PROPERTIES Terminates
CHECK_DEADLOCK FALSE
