\* M1 and L1/L2 on both sides, with loss, late replies and chain renewal.
SPECIFICATION Spec
CONSTANTS
  Offers <- MCOffers
  FirstChain <- MCFirstChain
  Chains <- MCChains
  Portions = 2
  MaxReq = 8
  MaxFaults = 2
  MaxReprov = 1
INVARIANTS
  AttestTypeOK
  RunAgrees
  M1Agrees
  ChallengeBinds
  MeasVerified
PROPERTIES
  LateKeepsM1
CHECK_DEADLOCK FALSE
