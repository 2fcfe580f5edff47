\* Connect and the handshake steps, against every responder of MCWorlds.
SPECIFICATION Spec
CONSTANTS
  Worlds <- MCWorlds
  Roots <- MCRoots
  Pins <- MCPins
  PortionSz = 2
  MinDts = 2
  MaxChain = 5
  Word16 = 8
INVARIANTS
  StandardTypeOK
  VersionBest
  AlgorithmsAnswerOffer
  ChainComplete
  ValidateIsVouched
  NoHalfMessage
PROPERTIES
  KexUnderPolicy
  ConnectAgrees
  FetchTerminates
CHECK_DEADLOCK FALSE
