CONSTANTS
  l = l
  v1 = v1
  v2 = v2
  p1 = p1
  p2 = p2
  Header = Header
  Leader = l
  Validator <- TwoValidators
  Part <- OnePart
  PerVote <- EqualVotes
  ShardIDCount = 3
  MaxView = 5
  StartSkewBounded = TRUE
SPECIFICATION Spec
INVARIANTS CertificateChain NoReject CertifiedExecution
SYMMETRY Symmetry
CHECK_DEADLOCK FALSE
