SPECIFICATION RecoveringSpec
CONSTANTS
  MaxRequests = 2
  Carrying <- LaterOnes
  Works = {w1}
INVARIANTS AttemptsConsistent OpenMeansRecovered NoForgottenWaiter
PROPERTIES PassesLegally WorkGoesOn
CHECK_DEADLOCK FALSE
