CONSTANTS
  Nil = Nil
  t1 = t1
  t2 = t2
  N = 2
  Tx <- AllTx
  Imported <- Files
  Lockable <- Lockable1
  Retries = 1
  Size <- Sizes
  MaxBytes = 3
  MaxTxs = 1
  Breakable <- ImporterConn
  MaxLag = 1
SPECIFICATION Spec
INVARIANTS ListSound ReturnsOnlyLate
PROPERTIES EventuallyAgreed ArrivesOrBroken
