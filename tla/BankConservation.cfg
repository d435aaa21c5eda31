CONSTANTS
  s1 = s1
  s2 = s2
  s3 = s3
  a = a
  b = b
  c = c
  d = d
  Nil = Nil
  ShardIDList <- TwoShards
  Account <- Accounts
  Home <- HomeOf
  Tx <- Transfers
  InitBalance = 2
  Modulus = 16
  MaxTxBlock = 1
  MaxBlock = 5
SPECIFICATION Spec
CHECK_DEADLOCK FALSE
INVARIANT DebitsEqualCredits
