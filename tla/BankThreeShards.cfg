CONSTANTS
  s1 = s1
  s2 = s2
  s3 = s3
  a = a
  b = b
  c = c
  d = d
  Nil = Nil
  ShardIDList <- ThreeShards
  Account <- FourAccounts
  Home <- HomeOfThree
  Tx <- WideTransfers
  InitBalance = 1
  Modulus = 3
  MaxTxBlock = 5
  MaxBlock = 9
SPECIFICATION Spec
CHECK_DEADLOCK FALSE
INVARIANTS AppliedOnlyIfAllLocked LateLockApplies LocksMatchRelays AppliedAtMostOnce BooksBalance
