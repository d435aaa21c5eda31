CONSTANTS
  Nil = Nil
  i = i
  b = b
  IShard <- OneI
  B = b
  ChainNo <- Numbers
  Owner <- Owners
  InnerTx <- Inner
  CrossTx <- Cross
  Digit = 3
  InitBalance = 3
  MaxBlockTx = 2
  MaxChain = 4
  MaxCross = 2
  Limits <- SomeLimits
SPECIFICATION Spec
CHECK_DEADLOCK FALSE
INVARIANTS  ReplayAgrees IteratorExact
