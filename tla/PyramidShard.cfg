CONSTANTS
  p1 = p1
  p2 = p2
  b1 = b1
  b2 = b2
  N = 2
  Vote <- HeavyOne
  Part <- TwoParts
  BShard <- TwoB
  MaxHeight = 2
SPECIFICATION FairSpec
CHECK_DEADLOCK FALSE
INVARIANTS CertifiedExecution BShardsFirst
PROPERTY AllExecute
