CONSTANTS
  i1 = i1
  i2 = i2
  i3 = i3
  b1 = b1
  b2 = b2
  k1 = k1
  k2 = k2
  k3 = k3
  None = None
  IShard <- TwoI
  BShard <- TwoB
  Related <- Same
  Key <- Keys
  Owner <- OwnedTwo
  InitBalance = 1
  InnerTx <- OneInner
  CrossTx <- Back
  MaxBlockTx = 1
  MaxHeight = 3
SPECIFICATION Spec
CHECK_DEADLOCK FALSE
INVARIANTS OneFate NoLeakedLock InStep
