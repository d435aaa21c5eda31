CONSTANTS
  l = l
  v1 = v1
  v2 = v2
  p1 = p1
  p2 = p2
  Header = Header
  Leader = l
  Validator <- TwoValidators
  Part <- TwoParts
  PerVote <- EqualVotes
  ShardIDCount = 3
  MaxView = 2
  StartSkewBounded = TRUE
SPECIFICATION FairSpec
INVARIANTS TypeOK PoolsFollowChain NothingLost
PROPERTIES CatchUp LeaderProgress
CHECK_DEADLOCK FALSE
