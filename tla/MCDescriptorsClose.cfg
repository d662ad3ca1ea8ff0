SPECIFICATION Spec
CONSTANTS
  TxHandle = {t1,t2}
  RxHandle = {}
  ByClose = {t2}
  Fd = {3,4}
  Free = free
  t1 = t1
  t2 = t2
INVARIANTS OpenOwnsItsDescriptor
