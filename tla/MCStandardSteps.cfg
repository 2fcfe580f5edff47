\* The transcript of an application that calls the handshake steps itself.
SPECIFICATION Spec
CONSTANTS
  Worlds <- MCWorlds
  Roots <- MCRoots
  Pins <- MCPins
  PortionSz = 2
  MinDts = 2
  MaxChain = 5
  Word16 = 8
INVARIANTS
  RetryBuildsOnNothing
CHECK_DEADLOCK FALSE
