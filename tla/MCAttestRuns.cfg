\* L1/L2 on both sides, whatever request comes between two GET_MEASUREMENTS.
SPECIFICATION Spec
CONSTANTS
  Offers <- MCOffers
  FirstChain <- MCFirstChain
  Chains <- MCChains
  Portions = 2
  MaxReq = 8
  MaxFaults = 0
  MaxReprov = 1
INVARIANTS
  OpenRunAgrees
CHECK_DEADLOCK FALSE
